---- MODULE Spec2Model ----
(***************************************************************************)
(* TCPConnection (tcp_socket_mcp/connection.py): one TCP session with its  *)
(* chunk buffer, byte counters, trigger map and background receive loop.   *)
(*                                                                         *)
(* The program runs on one asyncio event loop: the code between two        *)
(* suspending awaits runs without interleaving, so every action below is   *)
(* one such segment of a coroutine.  The suspending awaits are             *)
(* open_connection, reader.read, writer.drain, writer.wait_closed and the  *)
(* await of the read task.  "async with self._lock" never suspends: no     *)
(* holder of the lock awaits inside its critical section, so the lock is   *)
(* free whenever a coroutine is resumed.                                   *)
(*                                                                         *)
(* None is modelled as 0 (reader, writer, _read_task).                     *)
(*                                                                         *)
(* TCPSocketServer (TcpSocketMCP/server.py), the registry of Connections   *)
(* and the table of pending triggers, is modelled in its own section.      *)
(***************************************************************************)
EXTENDS Integers, Sequences, FiniteSets, TLC

\* ---------------------------------------------------------------- bounds
NumCallers == 3      \* coroutines of the shell that call into the Connection
MaxReads == 2        \* socket reads that return data
MaxCalls == 2        \* state-changing calls made besides connect()
MaxConnects == 2     \* connect() calls on the one Connection (reuse model)
MaxBuffer == 4       \* chunks in the buffer that read_buffer is applied to
MaxArg == 5          \* largest magnitude of an index or count argument
MaxTriggers == 2     \* triggers in the map that a chunk is evaluated against

READ_SIZE == 4096    \* reader.read(4096)

Callers == 1..NumCallers
Socks == 1..MaxConnects          \* one stream pair per successful handshake
Tasks == 1..MaxConnects          \* one read task per successful handshake

\* what the peer may send in one read, and what callers send
Chunks == {<<1>>, <<2, 1>>}
Payloads == {<<5, 6>>}
\* the add_trigger calls made: patterns are single literal characters
TriggerIds == {"a", "b"}
TriggerArgs == {[id |-> "a", pattern |-> 1, response |-> <<7>>],
                [id |-> "b", pattern |-> 2, response |-> <<8, 9>>]}

VARIABLES
    connected,       \* self.connected
    reader,          \* self.reader  (0 or a socket)
    writer,          \* self.writer  (0 or a socket)
    buffer,          \* self.buffer  (list of chunks)
    triggers,        \* self.triggers (insertion-ordered dict, pattern keyed)
    bytes_sent,      \* self.bytes_sent
    bytes_received,  \* self.bytes_received
    read_task,       \* self._read_task (0 or a task)
    tasks,           \* the _read_loop tasks created so far
    callers,         \* the calling coroutines and where they are suspended
    sockets,         \* the transports: closing flag, unflushed output, wire
    connect_calls,   \* number of connect() calls made so far
    reads,           \* number of data-bearing socket reads so far
    calls,           \* number of state-changing calls so far, connect() apart
    last,            \* the call that returned last, and what it returned
    read_log,        \* every non-empty chunk any socket read returned
    cleared_at,      \* Len(read_log) when clear_buffer last ran
    disc_returned,   \* disconnect() calls returned so far, made after connect()
    lock,            \* self._lock: 0 when free, else the task that holds it
    connections,     \* TCPSocketServer.connections (dict: id -> Connection)
    pending_triggers,\* TCPSocketServer.pending_triggers (dict: id -> dict)
    conn_objs,       \* the TCPConnection objects the server has created
    handlers,        \* the tool handlers and where they are suspended
    tool_calls,      \* number of tool calls made on the server so far
    reply            \* the tool call that returned last, and its result

\* the state of the TCPSocketServer around the Connections
shell_vars == <<connections, pending_triggers, conn_objs, handlers,
                tool_calls, reply>>

\* the one Connection that the actions of connection.py work on
conn_vars == <<connected, reader, writer, buffer, triggers, bytes_sent,
               bytes_received, read_task, tasks, callers, sockets,
               connect_calls, reads, calls, last, read_log, cleared_at,
               disc_returned, lock>>

vars == <<conn_vars, shell_vars>>

conn_fields == <<connected, reader, writer, buffer, triggers, bytes_sent,
                 bytes_received, read_task>>

\* ------------------------------------------------------------- helpers
RECURSIVE SumLen(_)
SumLen(s) == IF s = <<>> THEN 0 ELSE Len(Head(s)) + SumLen(Tail(s))

\* idx, used, left: the dict iterator of _check_triggers (entries passed,
\* size of the dict when the iteration began, entries still to be yielded)
NoTask == [pc |-> "none", rd |-> 0, data |-> <<>>, idx |-> 0, used |-> 0,
           left |-> 0, resp |-> <<>>, wr |-> 0, must_cancel |-> FALSE,
           exit |-> "none"]
IdleCaller == [pc |-> "idle", data |-> <<>>, wr |-> 0, task |-> 0]
NoCall == [op |-> "none", ret |-> "none", out |-> <<>>]
\* lost: "no", "closed" (connection_lost(None) after close) or "error"
NoSock == [open |-> FALSE, closing |-> FALSE, backlog |-> FALSE,
           lost |-> "no", wire |-> <<>>]

Active(t) == tasks[t].pc \in {"new", "read", "drain"}
Finished(t) == tasks[t].pc \in {"done", "cancelled"}

\* the call of caller c returns r (and the value out)
Return(c, op, r, out) ==
    /\ callers' = [callers EXCEPT ![c] = IdleCaller]
    /\ last' = [op |-> op, ret |-> r, out |-> out]

\* "async with self._lock" around a block that has no await: the lock is
\* free, so that acquire() returns without suspending, and it is released
\* when the block ends.  (Were the lock held, the coroutine would wait for
\* it: the step is not enabled.)
WithLock ==
    /\ lock = 0
    /\ lock' = 0

\* a pattern that is not a regular expression, such as "(": add_trigger
\* stores it unchecked and re.search raises re.error on it
BadPattern == 0
Raises(pattern) == pattern = BadPattern

\* re.search(pattern, data_str): the pattern occurs anywhere in the text
Matches(pattern, data) == \E i \in 1..Len(data) : data[i] = pattern

\* transport.write(data): the bytes are queued on the transport
Written(s, data) ==
    [sockets EXCEPT ![s].wire = Append(@, data), ![s].backlog = TRUE]

\* a dict with no key
EmptyDict == [k \in {} |-> 0]
\* a tool call without data arguments
NoArgs == [encoding |-> "none", text |-> <<>>, trigger_id |-> "none",
           pattern |-> 0 - 1]
\* args: the data arguments of the call; data: the bytes being sent
IdleHandler == [pc |-> "idle", tool |-> "none", id |-> "none", obj |-> 0,
                applied |-> <<>>, args |-> NoArgs, data |-> <<>>]

NoReply == [tool |-> "none", id |-> "none", args |-> NoArgs,
            status |-> "none", applied |-> <<>>, out |-> <<>>]

\* TCPSocketServer.__init__: no connection, no pending trigger
ServerInit ==
    /\ connections = EmptyDict
    /\ pending_triggers = EmptyDict
    /\ conn_objs = <<>>
    /\ handlers = [h \in Callers |-> IdleHandler]
    /\ tool_calls = 0
    /\ reply = NoReply

\* -------------------------------------------------------------- __init__
\* TCPConnection.__init__, with no call made yet
ConnInit ==
    /\ connected = FALSE
    /\ reader = 0
    /\ writer = 0
    /\ buffer = <<>>
    /\ triggers = <<>>
    /\ bytes_sent = 0
    /\ bytes_received = 0
    /\ read_task = 0
    /\ tasks = [t \in Tasks |-> NoTask]
    /\ callers = [c \in Callers |-> IdleCaller]
    /\ sockets = [s \in Socks |-> NoSock]
    /\ connect_calls = 0
    /\ reads = 0
    /\ calls = 0
    /\ last = NoCall
    /\ read_log = <<>>
    /\ cleared_at = 0
    /\ disc_returned = 0
    /\ lock = 0

Init ==
    /\ ConnInit
    /\ ServerInit

\* a caller may start a query: it is idle, and no connect() is pending
\* (the shell hands a Connection out only after connect() has returned)
\* (the callers are interchangeable coroutines: a new call is taken by the
\* first idle one)
CanQuery(c) ==
    /\ callers[c].pc = "idle"
    /\ \A d \in Callers : d < c => callers[d].pc # "idle"
    /\ \A d \in Callers : callers[d].pc # "connect"

\* a caller may start a call that changes the Connection
CanCall(c) ==
    /\ CanQuery(c)
    /\ calls < MaxCalls

\* ---------------------------------------------------------------- connect
\* (a bug: connected is set before the handshake has succeeded)
connect_call_eager(c) ==
    /\ callers[c].pc = "idle"
    /\ \A d \in Callers : d < c => callers[d].pc # "idle"
    /\ connect_calls < MaxConnects
    /\ callers' = [callers EXCEPT ![c] =
                      [IdleCaller EXCEPT !.pc = "connect"]]
    /\ connect_calls' = connect_calls + 1
    /\ connected' = TRUE
    /\ UNCHANGED <<reader, writer, buffer, triggers, bytes_sent,
                   bytes_received, read_task, tasks, sockets, reads, calls,
                   last, read_log, cleared_at, disc_returned>>
    /\ UNCHANGED lock
    /\ UNCHANGED shell_vars

\* connect(), up to the await of asyncio.open_connection
connect_call(c) ==
    /\ callers[c].pc = "idle"
    /\ \A d \in Callers : d < c => callers[d].pc # "idle"
    /\ connect_calls < MaxConnects
    /\ callers' = [callers EXCEPT ![c] =
                      [IdleCaller EXCEPT !.pc = "connect"]]
    /\ connect_calls' = connect_calls + 1
    /\ UNCHANGED <<conn_fields, tasks, sockets, reads, calls, last, read_log,
                   cleared_at, disc_returned>>
    /\ UNCHANGED lock
    /\ UNCHANGED shell_vars

\* the one connect() the shell makes on a new TCPConnection
Connect(c) ==
    /\ connect_calls = 0
    /\ connect_call(c)

\* a connect() on a Connection that connect() was already called on
Reconnect(c) ==
    /\ connect_calls > 0
    /\ connect_call(c)

NextSock == Cardinality({s \in Socks : sockets[s].open}) + 1

\* open_connection returned: lines 33-38
ConnectOk(c) ==
    /\ callers[c].pc = "connect"
    /\ LET s == NextSock IN
       /\ reader' = s
       /\ writer' = s
       /\ sockets' = [sockets EXCEPT ![s] = [NoSock EXCEPT !.open = TRUE]]
       /\ connected' = TRUE
       /\ tasks' = [tasks EXCEPT ![s] = [NoTask EXCEPT !.pc = "new"]]
       /\ read_task' = s
    /\ Return(c, "connect", "true", <<>>)
    /\ UNCHANGED <<buffer, triggers, bytes_sent, bytes_received,
                   connect_calls, reads, calls, read_log, cleared_at,
                   disc_returned>>
    /\ UNCHANGED lock
    /\ UNCHANGED shell_vars

\* open_connection raised: lines 39-42
ConnectFail(c) ==
    /\ callers[c].pc = "connect"
    /\ connected' = FALSE
    /\ Return(c, "connect", "false", <<>>)
    /\ UNCHANGED <<reader, writer, buffer, triggers, bytes_sent,
                   bytes_received, read_task, tasks, sockets, connect_calls,
                   reads, calls, read_log, cleared_at, disc_returned>>
    /\ UNCHANGED lock
    /\ UNCHANGED shell_vars

\* ------------------------------------------------------------- _read_loop
Done(why) == [NoTask EXCEPT !.pc = "done", !.exit = why]

\* "while self.connected and self.reader": suspend in reader.read(4096) or
\* fall out of the loop
LoopTop(conn) ==
    IF conn /\ reader # 0
    THEN [NoTask EXCEPT !.pc = "read", !.rd = reader]
    ELSE Done("cond")

\* the task created by connect() gets its first step
LoopStart(t) ==
    /\ tasks[t].pc = "new"
    /\ tasks' = [tasks EXCEPT ![t] =
                    IF tasks[t].must_cancel
                    THEN [NoTask EXCEPT !.pc = "cancelled"]
                    ELSE LoopTop(connected)]
    /\ UNCHANGED <<conn_fields, callers, sockets, connect_calls, reads,
                   calls, last, read_log, cleared_at, disc_returned>>
    /\ UNCHANGED lock
    /\ UNCHANGED shell_vars

\* (a bug: the cancellation is handled like a read error)
LoopCancelledAsError(t) ==
    /\ tasks[t].pc \in {"read", "drain"}
    /\ tasks[t].must_cancel
    /\ connected' = FALSE
    /\ tasks' = [tasks EXCEPT ![t] = Done("cancel")]
    /\ UNCHANGED <<reader, writer, buffer, triggers, bytes_sent,
                   bytes_received, read_task, callers, sockets,
                   connect_calls, reads, calls, last, read_log, cleared_at,
                   disc_returned>>
    /\ UNCHANGED lock
    /\ UNCHANGED shell_vars

\* CancelledError thrown into the loop at the await it is suspended in
\* (reader.read, or writer.drain inside a trigger send): line 99
LoopCancelled(t) ==
    /\ tasks[t].pc \in {"read", "drain"}
    /\ tasks[t].must_cancel
    /\ tasks' = [tasks EXCEPT ![t] = Done("cancel")]
    /\ UNCHANGED <<conn_fields, callers, sockets, connect_calls, reads,
                   calls, last, read_log, cleared_at, disc_returned>>
    /\ UNCHANGED lock
    /\ UNCHANGED shell_vars

\* position of the first trigger among dict positions i..hi on which
\* re.search does not return None: it matches, or it raises
FirstMatch(i, hi, data) ==
    LET S == {j \in i..hi :
                 \/ Matches(triggers[j].pattern, data)
                 \/ Raises(triggers[j].pattern)}
    IN IF S = {} THEN 0 ELSE CHOOSE j \in S : \A k \in S : j <= k

\* where the iterator of _check_triggers stands when the for loop is left
\* after a send has failed at the entry before position i: send() returns
\* False at line 68 for every later match, so the loop evaluates the
\* entries that are left, to the end or to a pattern that raises
LastEvaluated(i, left) ==
    LET hi == IF i + left - 1 < Len(triggers)
              THEN i + left - 1 ELSE Len(triggers)
        B == {k \in i..hi : Raises(triggers[k].pattern)}
    IN IF B # {} THEN CHOOSE k \in B : \A m \in B : k <= m
       ELSE IF hi >= i THEN hi ELSE i - 1

\* the loop has fallen out of its while after a failed send of the dispatch
\* that left the iterator at position i
DoneAfterSend(i) == [NoTask EXCEPT !.pc = "done", !.exit = "cond", !.idx = i]

\* (a bug: no try around the trigger loop, so that re.error unwinds into
\* _read_loop and ends it like a read error)
check_triggers_unguarded(t, i, data, used, left) ==
    LET hi == IF i + left - 1 < Len(triggers)
              THEN i + left - 1 ELSE Len(triggers)
        j == FirstMatch(i, hi, data) IN
    IF j # 0 /\ Raises(triggers[j].pattern)
    THEN /\ connected' = FALSE
         /\ tasks' = [tasks EXCEPT ![t] = Done("error")]
         /\ UNCHANGED sockets
    ELSE IF j = 0 \/ ~connected \/ writer = 0
    THEN /\ tasks' = [tasks EXCEPT ![t] = LoopTop(connected)]
         /\ UNCHANGED <<connected, sockets>>
    ELSE IF sockets[writer].lost = "error"
    THEN /\ connected' = FALSE
         /\ tasks' = [tasks EXCEPT ![t] =
                DoneAfterSend(LastEvaluated(j + 1, left - (j - i + 1)))]
         /\ UNCHANGED sockets
    ELSE /\ sockets' = Written(writer, triggers[j].response)
         /\ tasks' = [tasks EXCEPT ![t] =
                [NoTask EXCEPT !.pc = "drain", !.data = data, !.idx = j,
                               !.used = used, !.left = left - (j - i + 1),
                               !.wr = writer,
                               !.resp = triggers[j].response]]
         /\ UNCHANGED connected

\* _check_triggers from dict position i on, up to the next suspension:
\* the first matching trigger calls send(response), which writes and
\* suspends in drain; without a match, with re.error raised (caught at line
\* 114, outside the for loop) or with send() returning False, control is
\* back at the top of the loop.  The iterator yields at most the left
\* entries it has not yet yielded: an entry found after that raises
\* RuntimeError (keys changed during iteration), caught at line 114 too
check_triggers(t, i, data, used, left) ==
    LET hi == IF i + left - 1 < Len(triggers)
              THEN i + left - 1 ELSE Len(triggers)
        j == FirstMatch(i, hi, data) IN
    IF j = 0 \/ Raises(triggers[j].pattern) \/ ~connected \/ writer = 0
    THEN /\ tasks' = [tasks EXCEPT ![t] = LoopTop(connected)]
         /\ UNCHANGED <<connected, sockets>>
    ELSE IF sockets[writer].lost = "error"
    THEN /\ connected' = FALSE
         /\ tasks' = [tasks EXCEPT ![t] =
                DoneAfterSend(LastEvaluated(j + 1, left - (j - i + 1)))]
         /\ UNCHANGED sockets
    ELSE /\ sockets' = Written(writer, triggers[j].response)
         /\ tasks' = [tasks EXCEPT ![t] =
                [NoTask EXCEPT !.pc = "drain", !.data = data, !.idx = j,
                               !.used = used, !.left = left - (j - i + 1),
                               !.wr = writer,
                               !.resp = triggers[j].response]]
         /\ UNCHANGED connected

\* (a bug: the chunk is put in front of the list)
AppendChunkInFront(buf, data) == <<data>> \o buf

\* self.buffer.append(data)
AppendChunk(buf, data) == Append(buf, data)

\* (a bug: the counter counts chunks, not bytes)
CountReceivedChunks(n, data) == n + 1

\* self.bytes_received += len(data)
CountReceived(n, data) == n + Len(data)

\* (a bug: the triggers are checked inside the with block, so that the lock
\* stays held while a response is flushed)
LoopReadDataHolding(t, d) ==
    /\ tasks[t].pc = "read"
    /\ ~tasks[t].must_cancel
    /\ sockets[tasks[t].rd].lost # "error"
    /\ reads < MaxReads
    /\ Len(d) <= READ_SIZE
    /\ buffer' = AppendChunk(buffer, d)
    /\ bytes_received' = CountReceived(bytes_received, d)
    /\ check_triggers(t, 1, d, Len(triggers), Len(triggers))
    /\ reads' = reads + 1
    /\ read_log' = Append(read_log, d)
    /\ UNCHANGED <<reader, writer, triggers, bytes_sent, read_task, callers,
                   connect_calls, calls, last, cleared_at, disc_returned>>
    /\ lock = 0
    /\ lock' = IF tasks'[t].pc = "drain" THEN t ELSE 0
    /\ UNCHANGED shell_vars

\* reader.read returned data: lines 86-97
LoopReadData(t, d) ==
    /\ tasks[t].pc = "read"
    /\ ~tasks[t].must_cancel
    /\ sockets[tasks[t].rd].lost # "error"
    /\ reads < MaxReads
    /\ Len(d) <= READ_SIZE
    /\ buffer' = AppendChunk(buffer, d)
    /\ bytes_received' = CountReceived(bytes_received, d)
    /\ check_triggers(t, 1, d, Len(triggers), Len(triggers))
    /\ reads' = reads + 1
    /\ read_log' = Append(read_log, d)
    /\ UNCHANGED <<reader, writer, triggers, bytes_sent, read_task, callers,
                   connect_calls, calls, last, cleared_at, disc_returned>>
    /\ WithLock
    /\ UNCHANGED shell_vars

\* (a bug: the loop ends on a remote close without clearing connected)
LoopReadEofStaysConnected(t) ==
    /\ tasks[t].pc = "read"
    /\ ~tasks[t].must_cancel
    /\ sockets[tasks[t].rd].lost # "error"
    /\ tasks' = [tasks EXCEPT ![t] = Done("eof")]
    /\ UNCHANGED <<connected, reader, writer, buffer, triggers, bytes_sent,
                   bytes_received, read_task, callers, sockets,
                   connect_calls, reads, calls, last, read_log, cleared_at,
                   disc_returned>>
    /\ UNCHANGED lock
    /\ UNCHANGED shell_vars

\* reader.read returned b"": lines 87-90
LoopReadEof(t) ==
    /\ tasks[t].pc = "read"
    /\ ~tasks[t].must_cancel
    /\ sockets[tasks[t].rd].lost # "error"
    /\ connected' = FALSE
    /\ tasks' = [tasks EXCEPT ![t] = Done("eof")]
    /\ UNCHANGED <<reader, writer, buffer, triggers, bytes_sent,
                   bytes_received, read_task, callers, sockets,
                   connect_calls, reads, calls, last, read_log, cleared_at,
                   disc_returned>>
    /\ UNCHANGED lock
    /\ UNCHANGED shell_vars

\* reader.read raised: lines 101-104
LoopReadError(t) ==
    /\ tasks[t].pc = "read"
    /\ ~tasks[t].must_cancel
    /\ sockets[tasks[t].rd].lost # "closed"
    /\ connected' = FALSE
    /\ tasks' = [tasks EXCEPT ![t] = Done("error")]
    /\ sockets' = [sockets EXCEPT ![tasks[t].rd].lost = "error",
                                  ![tasks[t].rd].backlog = FALSE]
    /\ UNCHANGED <<reader, writer, buffer, triggers, bytes_sent,
                   bytes_received, read_task, callers, connect_calls, reads,
                   calls, last, read_log, cleared_at, disc_returned>>
    /\ UNCHANGED lock
    /\ UNCHANGED shell_vars

\* (a bug: a send made by the trigger dispatch is not counted)
LoopDrainOkUncounted(t) ==
    /\ tasks[t].pc = "drain"
    /\ ~tasks[t].must_cancel
    /\ ~sockets[tasks[t].wr].backlog
    /\ sockets[tasks[t].wr].lost # "error"
    /\ IF Len(triggers) # tasks[t].used
       THEN /\ tasks' = [tasks EXCEPT ![t] = LoopTop(connected)]
            /\ UNCHANGED <<connected, sockets>>
       ELSE check_triggers(t, tasks[t].idx + 1, tasks[t].data,
                           tasks[t].used, tasks[t].left)
    /\ UNCHANGED <<reader, writer, buffer, triggers, bytes_sent,
                   bytes_received, read_task, callers, connect_calls, reads,
                   calls, last, read_log, cleared_at, disc_returned>>
    /\ UNCHANGED lock
    /\ UNCHANGED shell_vars

\* (a bug: the iteration goes on over the map as it is now, so that a
\* trigger added during the send is evaluated against the chunk)
LoopDrainOkLive(t) ==
    /\ tasks[t].pc = "drain"
    /\ ~tasks[t].must_cancel
    /\ ~sockets[tasks[t].wr].backlog
    /\ sockets[tasks[t].wr].lost # "error"
    /\ bytes_sent' = bytes_sent + Len(tasks[t].resp)
    /\ check_triggers(t, tasks[t].idx + 1, tasks[t].data,
                      Len(triggers), Len(triggers) - tasks[t].idx)
    /\ UNCHANGED <<reader, writer, buffer, triggers, bytes_received,
                   read_task, callers, connect_calls, reads, calls, last, read_log,
                   cleared_at, disc_returned>>
    /\ UNCHANGED lock
    /\ UNCHANGED shell_vars

\* the drain of a trigger send returned: send() counts the bytes and
\* returns True, the dict iteration goes on (RuntimeError if the dict
\* changed size meanwhile, caught at line 114)
LoopDrainOk(t) ==
    /\ tasks[t].pc = "drain"
    /\ ~tasks[t].must_cancel
    /\ ~sockets[tasks[t].wr].backlog
    /\ sockets[tasks[t].wr].lost # "error"
    /\ bytes_sent' = bytes_sent + Len(tasks[t].resp)
    /\ IF Len(triggers) # tasks[t].used
       THEN /\ tasks' = [tasks EXCEPT ![t] = LoopTop(connected)]
            /\ UNCHANGED <<connected, sockets>>
       ELSE check_triggers(t, tasks[t].idx + 1, tasks[t].data,
                           tasks[t].used, tasks[t].left)
    /\ UNCHANGED <<reader, writer, buffer, triggers, bytes_received,
                   read_task, callers, connect_calls, reads, calls, last, read_log,
                   cleared_at, disc_returned>>
    /\ UNCHANGED lock
    /\ UNCHANGED shell_vars

\* the drain of a trigger send raised: send() sets connected False and
\* returns False; the iteration goes on (RuntimeError if the dict changed
\* size meanwhile), every later send of it returns False too, and the
\* while condition ends the loop
LoopDrainError(t) ==
    /\ tasks[t].pc = "drain"
    /\ ~tasks[t].must_cancel
    /\ sockets[tasks[t].wr].lost # "closed"
    /\ connected' = FALSE
    /\ tasks' = [tasks EXCEPT ![t] =
           DoneAfterSend(IF Len(triggers) # tasks[t].used
                         THEN tasks[t].idx
                         ELSE LastEvaluated(tasks[t].idx + 1, tasks[t].left))]
    /\ sockets' = [sockets EXCEPT ![tasks[t].wr].lost = "error",
                                  ![tasks[t].wr].backlog = FALSE]
    /\ UNCHANGED <<reader, writer, buffer, triggers, bytes_sent,
                   bytes_received, read_task, callers, connect_calls, reads,
                   calls, last, read_log, cleared_at, disc_returned>>
    /\ UNCHANGED lock
    /\ UNCHANGED shell_vars

\* ------------------------------------------------------------- disconnect
\* self._read_task.cancel(): a finished task ignores it
Cancel(t) ==
    IF Active(t) THEN [tasks EXCEPT ![t].must_cancel = TRUE] ELSE tasks

\* disconnect() from "if self.writer" (line 55) on: close the writer and
\* suspend in wait_closed, or (no writer, or the connection is already
\* lost so that wait_closed returns or raises at once) run to the end
disconnect_close(c) ==
    IF writer # 0 /\ sockets[writer].lost = "no"
    THEN /\ sockets' = [sockets EXCEPT ![writer].closing = TRUE]
         /\ callers' = [callers EXCEPT ![c] =
                [IdleCaller EXCEPT !.pc = "disc_close", !.wr = writer]]
         /\ UNCHANGED <<reader, writer, disc_returned, last>>
    ELSE /\ sockets' = IF writer # 0
                       THEN [sockets EXCEPT ![writer].closing = TRUE]
                       ELSE sockets
         /\ reader' = 0
         /\ writer' = 0
         /\ Return(c, "disconnect", "void", <<>>)
         /\ disc_returned' = IF connect_calls > 0
                            THEN disc_returned + 1 ELSE disc_returned

\* (a bug: the CancelledError of a read task that was cancelled before its
\* first step is not caught when the task is awaited)
DisconnectUncaught(c) ==
    /\ CanCall(c)
    /\ calls' = calls + 1
    /\ connected' = FALSE
    /\ IF read_task # 0 /\ Active(read_task)
       THEN /\ tasks' = Cancel(read_task)
            /\ callers' = [callers EXCEPT ![c] =
                   [IdleCaller EXCEPT !.pc = "disc_task",
                                      !.task = read_task]]
            /\ UNCHANGED <<reader, writer, sockets, disc_returned, last>>
       ELSE IF read_task # 0 /\ tasks[read_task].pc = "cancelled"
       THEN /\ Return(c, "disconnect", "raised", <<>>)
            /\ UNCHANGED <<reader, writer, sockets, disc_returned, tasks>>
       ELSE /\ tasks' = tasks
            /\ disconnect_close(c)
    /\ UNCHANGED <<buffer, triggers, bytes_sent, bytes_received, read_task,
                   connect_calls, reads, read_log, cleared_at>>
    /\ UNCHANGED lock
    /\ UNCHANGED shell_vars

\* (a bug: the read task is cancelled but not awaited)
DisconnectNoAwait(c) ==
    /\ CanCall(c)
    /\ calls' = calls + 1
    /\ connected' = FALSE
    /\ tasks' = IF read_task # 0 THEN Cancel(read_task) ELSE tasks
    /\ disconnect_close(c)
    /\ UNCHANGED <<buffer, triggers, bytes_sent, bytes_received, read_task,
                   connect_calls, reads, read_log, cleared_at>>
    /\ UNCHANGED lock
    /\ UNCHANGED shell_vars

\* (a bug: the read task is left running: neither cancelled nor awaited)
DisconnectNoCancel(c) ==
    /\ CanCall(c)
    /\ calls' = calls + 1
    /\ connected' = FALSE
    /\ tasks' = tasks
    /\ disconnect_close(c)
    /\ UNCHANGED <<buffer, triggers, bytes_sent, bytes_received, read_task,
                   connect_calls, reads, read_log, cleared_at>>
    /\ UNCHANGED lock
    /\ UNCHANGED shell_vars

\* disconnect(): lines 46-53, then on to line 55 unless the await of the
\* read task suspends
Disconnect(c) ==
    /\ CanCall(c)
    /\ calls' = calls + 1
    /\ connected' = FALSE
    /\ IF read_task # 0 /\ Active(read_task)
       THEN /\ tasks' = Cancel(read_task)
            /\ callers' = [callers EXCEPT ![c] =
                   [IdleCaller EXCEPT !.pc = "disc_task",
                                      !.task = read_task]]
            /\ UNCHANGED <<reader, writer, sockets, disc_returned, last>>
       ELSE /\ tasks' = tasks
            /\ disconnect_close(c)
    /\ UNCHANGED <<buffer, triggers, bytes_sent, bytes_received, read_task,
                   connect_calls, reads, read_log, cleared_at>>
    /\ UNCHANGED lock
    /\ UNCHANGED shell_vars

\* the awaited read task has finished: lines 51-55
DisconnectTaskDone(c) ==
    /\ callers[c].pc = "disc_task"
    /\ Finished(callers[c].task)
    /\ disconnect_close(c)
    /\ UNCHANGED <<connected, buffer, triggers, bytes_sent, bytes_received,
                   read_task, tasks, connect_calls, reads, calls, read_log,
                   cleared_at>>
    /\ UNCHANGED lock
    /\ UNCHANGED shell_vars

\* a send() on the stream is still suspended in drain although the
\* transport has flushed its buffer.  The transport resumes the drain
\* waiters (_maybe_resume_protocol) before it calls connection_lost(None),
\* and the event loop runs what is ready in that order: such a send()
\* continues before a disconnect() that waits for the close does
FlushedSendWaits(s) ==
    \E d \in Callers : /\ callers[d].pc = "send"
                       /\ callers[d].wr = s
                       /\ ~sockets[s].backlog

\* (a bug: the buffer is dropped when the writer has been closed)
DisconnectClosedClearing(c) ==
    /\ callers[c].pc = "disc_close"
    /\ sockets[callers[c].wr].lost # "no"
    /\ sockets[callers[c].wr].lost = "closed" => ~FlushedSendWaits(callers[c].wr)
    /\ reader' = 0
    /\ writer' = 0
    /\ buffer' = <<>>
    /\ Return(c, "disconnect", "void", <<>>)
    /\ disc_returned' = IF connect_calls > 0
                       THEN disc_returned + 1 ELSE disc_returned
    /\ UNCHANGED <<connected, triggers, bytes_sent, bytes_received,
                   read_task, tasks, sockets, connect_calls, reads, calls,
                   read_log, cleared_at>>
    /\ UNCHANGED lock
    /\ UNCHANGED shell_vars

\* wait_closed returned or raised: lines 58-64
DisconnectClosed(c) ==
    /\ callers[c].pc = "disc_close"
    /\ sockets[callers[c].wr].lost # "no"
    /\ sockets[callers[c].wr].lost = "closed" => ~FlushedSendWaits(callers[c].wr)
    /\ reader' = 0
    /\ writer' = 0
    /\ Return(c, "disconnect", "void", <<>>)
    /\ disc_returned' = IF connect_calls > 0
                       THEN disc_returned + 1 ELSE disc_returned
    /\ UNCHANGED <<connected, buffer, triggers, bytes_sent, bytes_received,
                   read_task, tasks, sockets, connect_calls, reads, calls,
                   read_log, cleared_at>>
    /\ UNCHANGED lock
    /\ UNCHANGED shell_vars

\* ------------------------------------------------------------------- send
\* send(data) up to its return or its suspension in drain: lines 68-73
Send(c, d) ==
    /\ CanCall(c)
    /\ calls' = calls + 1
    /\ IF ~connected \/ writer = 0
       THEN /\ Return(c, "send", "false", <<>>)
            /\ UNCHANGED <<connected, sockets>>
       ELSE IF sockets[writer].lost = "error"
       THEN /\ connected' = FALSE
            /\ Return(c, "send", "false", <<>>)
            /\ UNCHANGED sockets
       ELSE /\ sockets' = Written(writer, d)
            /\ callers' = [callers EXCEPT ![c] =
                   [IdleCaller EXCEPT !.pc = "send", !.data = d,
                                      !.wr = writer]]
            /\ UNCHANGED <<connected, last>>
    /\ UNCHANGED <<reader, writer, buffer, triggers, bytes_sent,
                   bytes_received, read_task, tasks, connect_calls, reads,
                   read_log, cleared_at, disc_returned>>
    /\ UNCHANGED lock
    /\ UNCHANGED shell_vars

\* drain returned: lines 74-76
SendDrainOk(c) ==
    /\ callers[c].pc = "send"
    /\ ~sockets[callers[c].wr].backlog
    /\ sockets[callers[c].wr].lost # "error"
    /\ bytes_sent' = bytes_sent + Len(callers[c].data)
    /\ Return(c, "send", "true", <<>>)
    /\ UNCHANGED <<connected, reader, writer, buffer, triggers,
                   bytes_received, read_task, tasks, sockets, connect_calls,
                   reads, calls, read_log, cleared_at, disc_returned>>
    /\ UNCHANGED lock
    /\ UNCHANGED shell_vars

\* (a bug: the bytes are counted before the flush is known to have succeeded)
SendDrainErrorCounted(c) ==
    /\ callers[c].pc = "send"
    /\ sockets[callers[c].wr].lost # "closed"
    /\ connected' = FALSE
    /\ bytes_sent' = bytes_sent + Len(callers[c].data)
    /\ Return(c, "send", "false", <<>>)
    /\ sockets' = [sockets EXCEPT ![callers[c].wr].lost = "error",
                                  ![callers[c].wr].backlog = FALSE]
    /\ UNCHANGED <<reader, writer, buffer, triggers,
                   bytes_received, read_task, tasks, connect_calls, reads,
                   calls, read_log, cleared_at, disc_returned>>
    /\ UNCHANGED lock
    /\ UNCHANGED shell_vars

\* drain raised: lines 77-80
SendDrainError(c) ==
    /\ callers[c].pc = "send"
    /\ sockets[callers[c].wr].lost # "closed"
    /\ connected' = FALSE
    /\ Return(c, "send", "false", <<>>)
    /\ sockets' = [sockets EXCEPT ![callers[c].wr].lost = "error",
                                  ![callers[c].wr].backlog = FALSE]
    /\ UNCHANGED <<reader, writer, buffer, triggers, bytes_sent,
                   bytes_received, read_task, tasks, connect_calls, reads,
                   calls, read_log, cleared_at, disc_returned>>
    /\ UNCHANGED lock
    /\ UNCHANGED shell_vars

\* ------------------------------------------------------------ buffer reads
Min(a, b) == IF a < b THEN a ELSE b
Max(a, b) == IF a > b THEN a ELSE b

\* Python list slice s[a:b] for integer a, b (negative counts from the end)
SliceIdx(i, n) == IF i < 0 THEN Max(i + n, 0) ELSE Min(i, n)
PySlice(s, a, b) == SubSeq(s, SliceIdx(a, Len(s)) + 1, SliceIdx(b, Len(s)))

\* read_buffer(index, count); an absent argument is <<>>, a given one <<n>>
read_buffer(buf, index, count) ==
    IF index = <<>>
    THEN buf
    ELSE IF count = <<>>
    THEN IF index[1] < Len(buf)
         THEN PySlice(buf, index[1], Len(buf)) ELSE <<>>
    ELSE LET end_index == Min(index[1] + count[1], Len(buf))
         IN IF index[1] < Len(buf)
            THEN PySlice(buf, index[1], end_index) ELSE <<>>

\* the (index, count) arguments tried
ReadArgs == {<<<<>>, <<>>>>, <<<<1>>, <<1>>>>}

\* (a bug: the list itself is returned when the whole buffer is asked for)
ReadBufferAlias(c, index, count) ==
    /\ CanQuery(c)
    /\ calls' = calls
    /\ IF index = <<>>
       THEN Return(c, "read_buffer", "self.buffer", buffer)
       ELSE Return(c, "read_buffer", "list",
                   read_buffer(buffer, index, count))
    /\ UNCHANGED <<conn_fields, tasks, sockets, connect_calls, reads,
                   read_log, cleared_at, disc_returned>>
    /\ WithLock
    /\ UNCHANGED shell_vars

\* read_buffer(index, count): lines 117-129; the result is a new list
ReadBuffer(c, index, count) ==
    /\ CanQuery(c)
    /\ calls' = calls
    /\ Return(c, "read_buffer", "list", read_buffer(buffer, index, count))
    /\ UNCHANGED <<conn_fields, tasks, sockets, connect_calls, reads,
                   read_log, cleared_at, disc_returned>>
    /\ WithLock
    /\ UNCHANGED shell_vars

\* (a bug: clearing the buffer also resets the receive counter)
ClearBufferResetting(c) ==
    /\ CanCall(c)
    /\ calls' = calls + 1
    /\ buffer' = <<>>
    /\ bytes_received' = 0
    /\ cleared_at' = Len(read_log)
    /\ Return(c, "clear_buffer", "void", <<>>)
    /\ UNCHANGED <<connected, reader, writer, triggers, bytes_sent,
                   read_task, tasks, sockets, connect_calls,
                   reads, read_log, disc_returned>>
    /\ WithLock
    /\ UNCHANGED shell_vars

\* clear_buffer(): lines 131-134
ClearBuffer(c) ==
    /\ CanCall(c)
    /\ calls' = calls + 1
    /\ buffer' = <<>>
    /\ cleared_at' = Len(read_log)
    /\ Return(c, "clear_buffer", "void", <<>>)
    /\ UNCHANGED <<connected, reader, writer, triggers, bytes_sent,
                   bytes_received, read_task, tasks, sockets, connect_calls,
                   reads, read_log, disc_returned>>
    /\ WithLock
    /\ UNCHANGED shell_vars

\* (a bug: total_bytes is taken from the receive counter)
get_buffer_info_from_counter ==
    [chunks |-> Len(buffer), total_bytes |-> bytes_received,
     bytes_sent |-> bytes_sent, bytes_received |-> bytes_received,
     connected |-> connected]

\* get_buffer_info(): lines 136-147
get_buffer_info ==
    [chunks |-> Len(buffer), total_bytes |-> SumLen(buffer),
     bytes_sent |-> bytes_sent, bytes_received |-> bytes_received,
     connected |-> connected]

GetBufferInfo(c) ==
    /\ CanQuery(c)
    /\ calls' = calls
    /\ Return(c, "get_buffer_info", "dict", get_buffer_info)
    /\ UNCHANGED <<conn_fields, tasks, sockets, connect_calls, reads,
                   read_log, cleared_at, disc_returned>>
    /\ WithLock
    /\ UNCHANGED shell_vars

\* ---------------------------------------------------------------- triggers
HasPattern(trs, p) == \E i \in 1..Len(trs) : trs[i].pattern = p
PatternPos(trs, p) == CHOOSE i \in 1..Len(trs) : trs[i].pattern = p
RemoveAt(s, i) == SubSeq(s, 1, i - 1) \o SubSeq(s, i + 1, Len(s))

\* (a bug: the triggers are kept in a list that add_trigger appends to)
add_trigger_appending(trs, id, p, r) ==
    Append(trs, [pattern |-> p, id |-> id, response |-> r])

\* self.triggers[pattern] = (trigger_id, response): an existing key keeps
\* its place in the dict, a new key goes to the end
add_trigger(trs, id, p, r) ==
    LET e == [pattern |-> p, id |-> id, response |-> r] IN
    IF HasPattern(trs, p)
    THEN [trs EXCEPT ![PatternPos(trs, p)] = e]
    ELSE Append(trs, e)

AddTrigger(c, id, p, r) ==
    /\ CanCall(c)
    /\ calls' = calls + 1
    /\ triggers' = add_trigger(triggers, id, p, r)
    /\ Return(c, "add_trigger", "void", <<>>)
    /\ UNCHANGED <<connected, reader, writer, buffer, bytes_sent,
                   bytes_received, read_task, tasks, sockets, connect_calls,
                   reads, read_log, cleared_at, disc_returned>>
    /\ UNCHANGED lock
    /\ UNCHANGED shell_vars

HasId(trs, id) == \E i \in 1..Len(trs) : trs[i].id = id
FirstWithId(trs, id) ==
    CHOOSE i \in 1..Len(trs) :
        /\ trs[i].id = id
        /\ \A k \in 1..(i - 1) : trs[k].id # id

\* del self.triggers[pattern] as a dict iterator suspended in a trigger
\* send sees it: an entry it has passed leaves a hole behind its position
Deleted(i) ==
    [t \in Tasks |->
        IF tasks[t].pc = "drain" /\ i <= tasks[t].idx
        THEN [tasks[t] EXCEPT !.idx = @ - 1]
        ELSE tasks[t]]

\* remove_trigger(trigger_id): lines 153-159
RemoveTrigger(c, id) ==
    /\ CanCall(c)
    /\ calls' = calls + 1
    /\ IF HasId(triggers, id)
       THEN /\ triggers' = RemoveAt(triggers, FirstWithId(triggers, id))
            /\ tasks' = Deleted(FirstWithId(triggers, id))
            /\ Return(c, "remove_trigger", "true", <<>>)
       ELSE /\ triggers' = triggers
            /\ tasks' = tasks
            /\ Return(c, "remove_trigger", "false", <<>>)
    /\ UNCHANGED <<connected, reader, writer, buffer, bytes_sent,
                   bytes_received, read_task, sockets, connect_calls,
                   reads, read_log, cleared_at, disc_returned>>
    /\ UNCHANGED lock
    /\ UNCHANGED shell_vars

\* get_triggers(): lines 161-170
get_triggers(trs) ==
    [i \in 1..Len(trs) |->
        [trigger_id |-> trs[i].id, pattern |-> trs[i].pattern,
         response_size |-> Len(trs[i].response)]]

GetTriggers(c) ==
    /\ CanQuery(c)
    /\ calls' = calls
    /\ Return(c, "get_triggers", "list", get_triggers(triggers))
    /\ UNCHANGED <<conn_fields, tasks, sockets, connect_calls, reads,
                   read_log, cleared_at, disc_returned>>
    /\ UNCHANGED lock
    /\ UNCHANGED shell_vars

\* ------------------------------------------------------------ the transport
\* the peer takes the queued output: the transport's buffer is empty again
PeerFlush(s) ==
    /\ sockets[s].backlog
    /\ sockets[s].lost = "no"
    /\ sockets' = [sockets EXCEPT ![s].backlog = FALSE]
    /\ UNCHANGED <<conn_fields, tasks, callers, connect_calls, reads, calls, last,
                   read_log, cleared_at, disc_returned>>
    /\ UNCHANGED lock
    /\ UNCHANGED shell_vars

\* a closing transport with nothing left to flush calls connection_lost(None)
ConnectionLost(s) ==
    /\ sockets[s].closing
    /\ ~sockets[s].backlog
    /\ sockets[s].lost = "no"
    /\ sockets' = [sockets EXCEPT ![s].lost = "closed"]
    /\ UNCHANGED <<conn_fields, tasks, callers, connect_calls, reads, calls, last,
                   read_log, cleared_at, disc_returned>>
    /\ UNCHANGED lock
    /\ UNCHANGED shell_vars

\* ------------------------------------------------------------ specification
Next ==
    \/ \E c \in Callers : Connect(c)
    \/ \E c \in Callers : ConnectOk(c)
    \/ \E c \in Callers : ConnectFail(c)
    \/ \E t \in Tasks : LoopStart(t)
    \/ \E t \in Tasks : LoopCancelled(t)
    \/ \E t \in Tasks, d \in Chunks : LoopReadData(t, d)
    \/ \E t \in Tasks : LoopReadEof(t)
    \/ \E t \in Tasks : LoopReadError(t)
    \/ \E t \in Tasks : LoopDrainOk(t)
    \/ \E t \in Tasks : LoopDrainError(t)
    \/ \E c \in Callers : Disconnect(c)
    \/ \E c \in Callers : DisconnectTaskDone(c)
    \/ \E c \in Callers : DisconnectClosed(c)
    \/ \E c \in Callers, d \in Payloads : Send(c, d)
    \/ \E c \in Callers : SendDrainOk(c)
    \/ \E c \in Callers : SendDrainError(c)
    \/ \E c \in Callers, a \in ReadArgs : ReadBuffer(c, a[1], a[2])
    \/ \E c \in Callers : ClearBuffer(c)
    \/ \E c \in Callers : GetBufferInfo(c)
    \/ \E c \in Callers, a \in TriggerArgs :
          AddTrigger(c, a.id, a.pattern, a.response)
    \/ \E c \in Callers, id \in TriggerIds : RemoveTrigger(c, id)
    \/ \E c \in Callers : GetTriggers(c)
    \/ \E s \in Socks : PeerFlush(s)
    \/ \E s \in Socks : ConnectionLost(s)

\* the Connection as its contract has it used: connect() once
Spec == Init /\ [][Next]_vars

\* the Connection used against its contract: connect() called again
NextReuse ==
    \/ Next
    \/ \E c \in Callers : Reconnect(c)

SpecReuse == Init /\ [][NextReuse]_vars

\* the event loop runs every coroutine that is ready: a task that was
\* created or cancelled gets its step, an await whose future is done
\* resumes, a closing transport with an empty buffer reports the loss.
\* Nothing obliges the peer to send, to take queued output or to fail.
SpecLive ==
    /\ Spec
    /\ \A t \in Tasks : WF_vars(LoopStart(t))
    /\ \A t \in Tasks : WF_vars(LoopCancelled(t))
    /\ \A t \in Tasks : WF_vars(LoopDrainOk(t))
    /\ \A c \in Callers : WF_vars(DisconnectTaskDone(c))
    /\ \A c \in Callers : WF_vars(DisconnectClosed(c))
    /\ \A c \in Callers : WF_vars(SendDrainOk(c))
    /\ \A s \in Socks : WF_vars(ConnectionLost(s))

\* ------------------------------------------------- read_buffer on its own
\* the index and count arguments the shell passes on: absent, or any
\* integer of the tool call (the schema sets no minimum)
IndexArgs == {<<>>} \cup {<<i>> : i \in (0 - MaxArg)..MaxArg}
CountArgs == {<<>>} \cup {<<n>> : n \in (0 - MaxArg)..MaxArg}

\* the buffers of up to MaxBuffer chunks
Buffers == UNION {[1..n -> Chunks] : n \in 0..MaxBuffer}

\* a connected Connection whose loop has received the chunks of some buffer
\* and is suspended in its next read
InitRead ==
    /\ buffer \in Buffers
    /\ connected = TRUE
    /\ reader = 1
    /\ writer = 1
    /\ triggers = <<>>
    /\ bytes_sent = 0
    /\ bytes_received = SumLen(buffer)
    /\ read_task = 1
    /\ tasks = [t \in Tasks |->
                   IF t = 1 THEN [NoTask EXCEPT !.pc = "read", !.rd = 1]
                   ELSE NoTask]
    /\ callers = [c \in Callers |-> IdleCaller]
    /\ sockets = [s \in Socks |->
                     IF s = 1 THEN [NoSock EXCEPT !.open = TRUE] ELSE NoSock]
    /\ connect_calls = 1
    /\ reads = Len(buffer)
    /\ calls = 0
    /\ last = [op |-> "connect", ret |-> "true", out |-> <<>>]
    /\ read_log = buffer
    /\ cleared_at = 0
    /\ disc_returned = 0
    /\ lock = 0
    /\ ServerInit

NextRead ==
    \E c \in Callers, index \in IndexArgs, count \in CountArgs :
        ReadBuffer(c, index, count)

SpecRead == InitRead /\ [][NextRead]_vars

\* ------------------------------------------- trigger dispatch on its own
\* the entries a trigger map may hold: those of TriggerArgs and one whose
\* pattern is not a regular expression
TriggerEntries ==
    {[pattern |-> a.pattern, id |-> a.id, response |-> a.response] :
        a \in TriggerArgs}
    \cup {[pattern |-> BadPattern, id |-> "x", response |-> <<3>>]}

\* the trigger maps of up to MaxTriggers entries: a dict, so no pattern twice
TriggerMaps ==
    {m \in UNION {[1..n -> TriggerEntries] : n \in 0..MaxTriggers} :
        \A i, j \in 1..Len(m) : m[i].pattern = m[j].pattern => i = j}

\* a connected Connection with some trigger map, its loop suspended in the
\* first read
InitTrig ==
    /\ triggers \in TriggerMaps
    /\ connected = TRUE
    /\ reader = 1
    /\ writer = 1
    /\ buffer = <<>>
    /\ bytes_sent = 0
    /\ bytes_received = 0
    /\ read_task = 1
    /\ tasks = [t \in Tasks |->
                   IF t = 1 THEN [NoTask EXCEPT !.pc = "read", !.rd = 1]
                   ELSE NoTask]
    /\ callers = [c \in Callers |-> IdleCaller]
    /\ sockets = [s \in Socks |->
                     IF s = 1 THEN [NoSock EXCEPT !.open = TRUE] ELSE NoSock]
    /\ connect_calls = 1
    /\ reads = 0
    /\ calls = Len(triggers)
    /\ last = [op |-> "add_trigger", ret |-> "void", out |-> <<>>]
    /\ read_log = <<>>
    /\ cleared_at = 0
    /\ disc_returned = 0
    /\ lock = 0
    /\ ServerInit

\* the receive loop and the transport, with no caller interfering
NextTrig ==
    \/ \E t \in Tasks, d \in Chunks : LoopReadData(t, d)
    \/ \E t \in Tasks : LoopDrainOk(t)
    \/ \E t \in Tasks : LoopDrainError(t)
    \/ \E s \in Socks : PeerFlush(s)

SpecTrig == InitTrig /\ [][NextTrig]_vars

\* ------------------------------------- callers at work during a disconnect
\* a connected Connection whose loop is suspended in its first read, with
\* the send() of one caller suspended in its flush, and callers about to
\* call into it
InitInert ==
    /\ triggers = <<>>
    /\ connected = TRUE
    /\ reader = 1
    /\ writer = 1
    /\ buffer = <<>>
    /\ bytes_sent = 0
    /\ bytes_received = 0
    /\ read_task = 1
    /\ tasks = [t \in Tasks |->
                   IF t = 1 THEN [NoTask EXCEPT !.pc = "read", !.rd = 1]
                   ELSE NoTask]
    /\ \E d \in Payloads :
          /\ callers = [c \in Callers |->
                           IF c = 1
                           THEN [IdleCaller EXCEPT !.pc = "send",
                                                   !.data = d, !.wr = 1]
                           ELSE IdleCaller]
          /\ sockets = [s \in Socks |->
                           IF s = 1
                           THEN [NoSock EXCEPT !.open = TRUE,
                                               !.wire = <<d>>,
                                               !.backlog = TRUE]
                           ELSE NoSock]
    /\ connect_calls = 1
    /\ reads = 0
    /\ calls = 0
    /\ last = [op |-> "connect", ret |-> "true", out |-> <<>>]
    /\ read_log = <<>>
    /\ cleared_at = 0
    /\ disc_returned = 0
    /\ lock = 0
    /\ ServerInit

\* the loop receiving and ending, the suspended send() finishing, and
\* callers that disconnect, clear the buffer and query it
NextInert ==
    \/ \E t \in Tasks : LoopCancelled(t)
    \/ \E t \in Tasks, d \in Chunks : LoopReadData(t, d)
    \/ \E t \in Tasks : LoopReadEof(t)
    \/ \E t \in Tasks : LoopReadError(t)
    \/ \E c \in Callers : Disconnect(c)
    \/ \E c \in Callers : DisconnectTaskDone(c)
    \/ \E c \in Callers : DisconnectClosed(c)
    \/ \E c \in Callers : SendDrainOk(c)
    \/ \E c \in Callers : SendDrainError(c)
    \/ \E c \in Callers : ClearBuffer(c)
    \/ \E c \in Callers : GetBufferInfo(c)
    \/ \E s \in Socks : PeerFlush(s)
    \/ \E s \in Socks : ConnectionLost(s)

SpecInert == InitInert /\ [][NextInert]_vars

\* ----------------------------------- trigger dispatch with callers at work
\* a trigger whose pattern occurs in no chunk the peer sends
OtherTrigger == [id |-> "c", pattern |-> 3, response |-> <<4>>]

\* a connected Connection with some trigger map, its loop suspended in the
\* first read, and callers about to call into it
InitDispatch ==
    /\ triggers \in TriggerMaps
    /\ connected = TRUE
    /\ reader = 1
    /\ writer = 1
    /\ buffer = <<>>
    /\ bytes_sent = 0
    /\ bytes_received = 0
    /\ read_task = 1
    /\ tasks = [t \in Tasks |->
                   IF t = 1 THEN [NoTask EXCEPT !.pc = "read", !.rd = 1]
                   ELSE NoTask]
    /\ callers = [c \in Callers |-> IdleCaller]
    /\ sockets = [s \in Socks |->
                     IF s = 1 THEN [NoSock EXCEPT !.open = TRUE] ELSE NoSock]
    /\ connect_calls = 1
    /\ reads = 0
    /\ calls = 0
    /\ last = [op |-> "add_trigger", ret |-> "void", out |-> <<>>]
    /\ read_log = <<>>
    /\ cleared_at = 0
    /\ disc_returned = 0
    /\ lock = 0
    /\ ServerInit

\* the loop dispatching while callers send, add a trigger that matches
\* nothing, and remove triggers
NextDispatch ==
    \/ \E t \in Tasks, d \in Chunks : LoopReadData(t, d)
    \/ \E t \in Tasks : LoopDrainOk(t)
    \/ \E t \in Tasks : LoopDrainError(t)
    \/ \E c \in Callers, d \in Payloads : Send(c, d)
    \/ \E c \in Callers : SendDrainOk(c)
    \/ \E c \in Callers : SendDrainError(c)
    \/ \E c \in Callers :
          AddTrigger(c, OtherTrigger.id, OtherTrigger.pattern,
                     OtherTrigger.response)
    \/ \E c \in Callers, id \in TriggerIds : RemoveTrigger(c, id)
    \/ \E s \in Socks : PeerFlush(s)

SpecDispatch == InitDispatch /\ [][NextDispatch]_vars

\* ----------------------------------------- the trigger map and its callers
\* the add_trigger calls made on the map: any id with any pattern and any
\* response
AddArgs ==
    [id : TriggerIds, pattern : {1, 2}, response : {<<7>>, <<8, 9>>}]

\* trigger maps in which no pattern and no id occurs twice
TriggerSets ==
    {m \in UNION {[1..n -> AddArgs] : n \in 0..MaxTriggers} :
        \A i, j \in 1..Len(m) :
            (m[i].pattern = m[j].pattern \/ m[i].id = m[j].id) => i = j}

\* a connected Connection with such a map, its loop suspended in the first
\* read
InitTriggers ==
    /\ triggers \in TriggerSets
    /\ connected = TRUE
    /\ reader = 1
    /\ writer = 1
    /\ buffer = <<>>
    /\ bytes_sent = 0
    /\ bytes_received = 0
    /\ read_task = 1
    /\ tasks = [t \in Tasks |->
                   IF t = 1 THEN [NoTask EXCEPT !.pc = "read", !.rd = 1]
                   ELSE NoTask]
    /\ callers = [c \in Callers |-> IdleCaller]
    /\ sockets = [s \in Socks |->
                     IF s = 1 THEN [NoSock EXCEPT !.open = TRUE] ELSE NoSock]
    /\ connect_calls = 1
    /\ reads = 0
    /\ calls = 0
    /\ last = [op |-> "connect", ret |-> "true", out |-> <<>>]
    /\ read_log = <<>>
    /\ cleared_at = 0
    /\ disc_returned = 0
    /\ lock = 0
    /\ ServerInit

\* callers adding, removing and listing triggers while the loop dispatches
NextTriggers ==
    \/ \E c \in Callers, a \in AddArgs :
          AddTrigger(c, a.id, a.pattern, a.response)
    \/ \E c \in Callers, id \in TriggerIds : RemoveTrigger(c, id)
    \/ \E c \in Callers : GetTriggers(c)
    \/ \E t \in Tasks, d \in Chunks : LoopReadData(t, d)
    \/ \E t \in Tasks : LoopDrainOk(t)
    \/ \E t \in Tasks : LoopDrainError(t)
    \/ \E s \in Socks : PeerFlush(s)

SpecTriggers == InitTriggers /\ [][NextTriggers]_vars

\* ------------------------------------------------------ the byte codec
\* Text is a sequence of code points, bytes are a sequence of 0..255.
\* The conversions of server.py: str.encode("utf-8"), bytes.hex(),
\* _parse_hex_string and base64.b64decode.  A conversion that raises is
\* [raised |-> TRUE], one that returns is [raised |-> FALSE, bytes |-> b].
Returned(b) == [raised |-> FALSE, bytes |-> b]
RaisedError == [raised |-> TRUE, bytes |-> <<>>]

\* the two characters of a backslash-x escape
BACKSLASH == 92
LOWER_X == 120

\* str.encode("utf-8") for code points below 0x800
Utf8Char(c) == IF c < 128 THEN <<c>> ELSE <<192 + (c \div 64), 128 + (c % 64)>>
RECURSIVE Utf8(_)
Utf8(text) == IF text = <<>> THEN <<>> ELSE Utf8Char(Head(text)) \o Utf8(Tail(text))

IsHexDigit(c) == c \in (48..57) \cup (65..70) \cup (97..102)
HexVal(c) == IF c <= 57 THEN c - 48 ELSE IF c <= 70 THEN c - 55 ELSE c - 87
HexDigit(n) == IF n < 10 THEN 48 + n ELSE 87 + n

RECURSIVE HexUnpadded(_)
RECURSIVE Hex(_)

\* (a bug: a byte below 16 is written as one digit)
HexUnpadded(b) ==
    IF b = <<>> THEN <<>>
    ELSE (IF Head(b) < 16 THEN <<HexDigit(Head(b))>>
          ELSE <<HexDigit(Head(b) \div 16), HexDigit(Head(b) % 16)>>)
         \o HexUnpadded(Tail(b))

\* chunk.hex(): two lowercase digits per byte
Hex(b) ==
    IF b = <<>> THEN <<>>
    ELSE <<HexDigit(Head(b) \div 16), HexDigit(Head(b) % 16)>> \o Hex(Tail(b))

StartsWith(text, pat) ==
    Len(text) >= Len(pat) /\ SubSeq(text, 1, Len(pat)) = pat
Contains(text, pat) ==
    \E i \in 1..Len(text) : StartsWith(SubSeq(text, i, Len(text)), pat)

\* str.replace(pat, ""): one pass from the left
RECURSIVE Removed(_, _)
Removed(text, pat) ==
    IF text = <<>> THEN <<>>
    ELSE IF StartsWith(text, pat)
         THEN Removed(SubSeq(text, Len(pat) + 1, Len(text)), pat)
         ELSE <<Head(text)>> \o Removed(Tail(text), pat)

\* line 39: "0x" (48, 120), "0X" (48, 88), " " (32), "\n" (10) and
\* "\r" (13) are removed, in this order
clean_hex(hex_str) ==
    Removed(Removed(Removed(Removed(Removed(hex_str, <<48, LOWER_X>>),
        <<48, 88>>), <<32>>), <<10>>), <<13>>)

IsAsciiSpace(c) == c \in {32} \cup (9..13)

\* bytes.fromhex: pairs of hex digits, ASCII whitespace between the pairs
RECURSIVE fromhex(_)
fromhex(text) ==
    IF text = <<>> THEN Returned(<<>>)
    ELSE IF IsAsciiSpace(Head(text)) THEN fromhex(Tail(text))
    ELSE IF Len(text) >= 2 /\ IsHexDigit(text[1]) /\ IsHexDigit(text[2])
         THEN LET rest == fromhex(SubSeq(text, 3, Len(text))) IN
              IF rest.raised THEN RaisedError
              ELSE Returned(<<16 * HexVal(text[1]) + HexVal(text[2])>>
                            \o rest.bytes)
         ELSE RaisedError

\* the pattern \\x([0-9a-fA-F]{2}) matches at the head of the text
EscapeAtHead(text) ==
    /\ Len(text) >= 4
    /\ text[1] = BACKSLASH
    /\ text[2] = LOWER_X
    /\ IsHexDigit(text[3])
    /\ IsHexDigit(text[4])

\* re.split(r'(\\x[0-9a-fA-F]{2})', hex_str): the escapes and the text
\* between them, in order
RECURSIVE SplitFrom(_, _)
SplitFrom(text, literal) ==
    IF text = <<>> THEN <<literal>>
    ELSE IF EscapeAtHead(text)
         THEN <<literal, SubSeq(text, 1, 4)>>
              \o SplitFrom(SubSeq(text, 5, Len(text)), <<>>)
         ELSE SplitFrom(Tail(text), Append(literal, Head(text)))
Split(text) == SplitFrom(text, <<>>)

\* int(s, 16) on two characters: surrounding whitespace is stripped and a
\* sign is accepted, anything else that is not a hex digit raises
Int16(two) ==
    IF IsHexDigit(two[1]) /\ IsHexDigit(two[2])
    THEN Returned(<<16 * HexVal(two[1]) + HexVal(two[2])>>)
    ELSE IF IsAsciiSpace(two[1]) /\ IsHexDigit(two[2])
    THEN Returned(<<HexVal(two[2])>>)
    ELSE IF IsHexDigit(two[1]) /\ IsAsciiSpace(two[2])
    THEN Returned(<<HexVal(two[1])>>)
    ELSE IF two[1] = 43 /\ IsHexDigit(two[2])
    THEN Returned(<<HexVal(two[2])>>)
    ELSE RaisedError

\* lines 54-60: the loop over the parts
RECURSIVE ParseParts(_)
ParseParts(parts) ==
    IF parts = <<>> THEN Returned(<<>>)
    ELSE LET part == Head(parts)
             this == IF StartsWith(part, <<BACKSLASH, LOWER_X>>)
                        /\ Len(part) = 4
                     THEN Int16(SubSeq(part, 3, 4))
                     ELSE Returned(Utf8(part))
             rest == ParseParts(Tail(parts))
         IN IF this.raised \/ rest.raised THEN RaisedError
            ELSE Returned(this.bytes \o rest.bytes)

\* the escapes of the text, as findall returns them
RECURSIVE Matches16(_)
Matches16(parts) ==
    IF parts = <<>> THEN <<>>
    ELSE (IF EscapeAtHead(Head(parts)) /\ Len(Head(parts)) = 4
          THEN <<16 * HexVal(Head(parts)[3]) + HexVal(Head(parts)[4])>>
          ELSE <<>>) \o Matches16(Tail(parts))

\* _parse_hex_string: lines 35-69
parse_hex_string(hex_str) ==
    IF Contains(hex_str, <<BACKSLASH, LOWER_X>>)
    THEN LET parts == Split(hex_str)
             onlyEscapes == \A i \in 1..Len(parts) :
                                parts[i] = <<>> \/ i % 2 = 0
         IN IF onlyEscapes THEN Returned(Matches16(parts))
            ELSE ParseParts(parts)
    ELSE LET plain == fromhex(clean_hex(hex_str)) IN
         IF plain.raised THEN Returned(Utf8(hex_str)) ELSE plain

\* the value of a character of the base64 alphabet, 64 for any other
B64Val(c) ==
    IF c \in 65..90 THEN c - 65
    ELSE IF c \in 97..122 THEN c - 71
    ELSE IF c \in 48..57 THEN c + 4
    ELSE IF c = 43 THEN 62
    ELSE IF c = 47 THEN 63
    ELSE 64

\* binascii.a2b_base64 without validation: other characters are skipped,
\* a complete pad sequence ends the input, an incomplete last group raises
RECURSIVE a2b_base64(_, _, _, _, _)
a2b_base64(text, quad_pos, leftchar, pads, out) ==
    IF text = <<>>
    THEN IF quad_pos # 0 THEN RaisedError ELSE Returned(out)
    ELSE LET c == Head(text)
             v == B64Val(c)
         IN IF c = 61   \* the pad character "="
            THEN IF quad_pos >= 2 /\ quad_pos + pads + 1 >= 4
                 THEN Returned(out)
                 ELSE a2b_base64(Tail(text), quad_pos, leftchar,
                                 IF quad_pos >= 2 THEN pads + 1 ELSE pads,
                                 out)
            ELSE IF v >= 64
            THEN a2b_base64(Tail(text), quad_pos, leftchar, pads, out)
            ELSE IF quad_pos = 0
            THEN a2b_base64(Tail(text), 1, v, 0, out)
            ELSE IF quad_pos = 1
            THEN a2b_base64(Tail(text), 2, v % 16, 0,
                            Append(out, leftchar * 4 + (v \div 16)))
            ELSE IF quad_pos = 2
            THEN a2b_base64(Tail(text), 3, v % 4, 0,
                            Append(out, leftchar * 16 + (v \div 4)))
            ELSE a2b_base64(Tail(text), 0, 0, 0,
                            Append(out, leftchar * 64 + v))

\* base64.b64decode(s): a str must be ASCII
b64decode(text) ==
    IF \E i \in 1..Len(text) : text[i] >= 128 THEN RaisedError
    ELSE a2b_base64(text, 0, 0, 0, <<>>)

\* (a bug: base64 that cannot be decoded is taken as text, as hex is)
EncodedLenient(encoding, text) ==
    IF encoding = "base64"
    THEN (IF b64decode(text).raised THEN Returned(Utf8(text))
          ELSE b64decode(text))
    ELSE IF encoding = "hex" THEN parse_hex_string(text)
    ELSE Returned(Utf8(text))

\* lines 579-584 (and 705-710, 925-930): the data of a tool call as bytes
Encoded(encoding, text) ==
    IF encoding = "base64" THEN b64decode(text)
    ELSE IF encoding = "hex" THEN parse_hex_string(text)
    ELSE Returned(Utf8(text))

\* ------------------------------------------------ the server's registry
\* TCPSocketServer (TcpSocketMCP/server.py): the tool handlers around the
\* registry of Connections and the table of pending triggers.  The MCP
\* server runs every tool call as a task of its own, so a handler that is
\* suspended in an await interleaves with the other handlers.  A
\* Connection is seen here from outside: whether it is connected, whether
\* its receive loop runs, whether its transport is closed, its triggers,
\* what was written to its socket, its bytes_sent and its buffer.
\* The tool calls are made without a terminator.
MaxToolCalls == 3    \* tool calls made on the server
ConnIds == {"x", "y"}

NewConn(id) == [id |-> id, connected |-> FALSE, loop |-> FALSE,
                closed |-> FALSE, triggers |-> <<>>, bytes_sent |-> 0,
                wire |-> <<>>, buffer |-> <<>>]

\* (the handlers are interchangeable tasks: a new call is taken by the
\* first idle one)
CanStart(h) ==
    /\ handlers[h].pc = "idle"
    /\ \A g \in Callers : g < h => handlers[g].pc # "idle"
    /\ tool_calls < MaxToolCalls

\* the content block a handler returns, here its status or error name
Result(tool, id, status) ==
    [tool |-> tool, id |-> id, args |-> NoArgs, status |-> status,
     applied |-> <<>>, out |-> <<>>]

\* the handler returns
Reply(h, result) ==
    /\ handlers' = [handlers EXCEPT ![h] = IdleHandler]
    /\ reply' = result

\* the handler of a call, suspended in an await
Waiting(pc, tool, id, o) ==
    [IdleHandler EXCEPT !.pc = pc, !.tool = tool, !.id = id, !.obj = o]

Suspend(h, waiting) ==
    /\ handlers' = [handlers EXCEPT ![h] = waiting]
    /\ reply' = reply

\* d[k] = v and del d[k] on a dict
DictSet(d, k, v) == [j \in DOMAIN d \cup {k} |-> IF j = k THEN v ELSE d[j]]
DictDel(d, k) == [j \in DOMAIN d \ {k} |-> d[j]]

\* the pending triggers of an id: a dict keyed by trigger id
PendingFor(id) ==
    IF id \in DOMAIN pending_triggers THEN pending_triggers[id] ELSE <<>>

\* for trigger_id, trigger_data in pending.items(): conn.add_trigger(...)
RECURSIVE ApplyPending(_, _)
ApplyPending(trs, pend) ==
    IF pend = <<>> THEN trs
    ELSE ApplyPending(add_trigger(trs, Head(pend).id, Head(pend).pattern,
                                  Head(pend).response), Tail(pend))

AppliedIds(pend) == [i \in 1..Len(pend) |-> pend[i].id]

\* connect() has succeeded and the pending triggers of the id are applied
ConnectedObjs(id, o) ==
    [conn_objs EXCEPT ![o] =
        [@ EXCEPT !.connected = TRUE, !.loop = TRUE,
                  !.triggers = ApplyPending(@, PendingFor(id))]]

\* lines 500-510 and 912-922: the connection is stored under its id and
\* the pending triggers of the id leave the table
Registered(id, o) ==
    /\ connections' = DictSet(connections, id, o)
    /\ pending_triggers' = DictDel(pending_triggers, id)

\* the check of lines 488 and 890, then TCPConnection(...) and the call
\* of connect(), which is suspended in open_connection
CreateOrRefuse(h, tool, id, pc, args) ==
    IF id \in DOMAIN connections
    THEN /\ Reply(h, Result(tool, id, "duplicate_id"))
         /\ UNCHANGED <<connections, pending_triggers, conn_objs>>
    ELSE /\ conn_objs' = Append(conn_objs, NewConn(id))
         /\ Suspend(h, [Waiting(pc, tool, id, Len(conn_objs) + 1)
                            EXCEPT !.args = args])
         /\ UNCHANGED <<connections, pending_triggers>>

\* (a bug: the Connection is created before the identifier is checked)
handle_connect_creating(h, id) ==
    /\ CanStart(h)
    /\ tool_calls' = tool_calls + 1
    /\ conn_objs' = Append(conn_objs, NewConn(id))
    /\ IF id \in DOMAIN connections
       THEN Reply(h, Result("tcp_connect", id, "duplicate_id"))
       ELSE Suspend(h, Waiting("connect", "tcp_connect", id,
                               Len(conn_objs) + 1))
    /\ UNCHANGED <<connections, pending_triggers>>
    /\ UNCHANGED conn_vars

\* _handle_connect up to its await: lines 482-498
handle_connect(h, id) ==
    /\ CanStart(h)
    /\ tool_calls' = tool_calls + 1
    /\ CreateOrRefuse(h, "tcp_connect", id, "connect", NoArgs)
    /\ UNCHANGED conn_vars

\* _handle_connect after connect() has returned: lines 498-535
handle_connect_done(h, success) ==
    /\ handlers[h].pc = "connect"
    /\ tool_calls' = tool_calls
    /\ IF success
       THEN /\ Registered(handlers[h].id, handlers[h].obj)
            /\ conn_objs' = ConnectedObjs(handlers[h].id, handlers[h].obj)
            /\ Reply(h, [Result("tcp_connect", handlers[h].id, "connected")
                   EXCEPT !.applied = AppliedIds(PendingFor(handlers[h].id))])
       ELSE /\ Reply(h, Result("tcp_connect", handlers[h].id,
                               "connection_failed"))
            /\ UNCHANGED <<connections, pending_triggers, conn_objs>>
    /\ UNCHANGED conn_vars

\* _handle_connect_and_send up to its first await: lines 880-901
handle_connect_and_send(h, id, a) ==
    /\ CanStart(h)
    /\ tool_calls' = tool_calls + 1
    /\ CreateOrRefuse(h, "tcp_connect_and_send", id, "cs_connect", a)
    /\ UNCHANGED conn_vars

\* after connect() has returned: lines 901-938.  The data is encoded after
\* the connection is registered; an encoding that raises ends the call in
\* call_tool's except clause.  send() writes and is suspended in drain
handle_connect_and_send_connected(h, success) ==
    /\ handlers[h].pc = "cs_connect"
    /\ tool_calls' = tool_calls
    /\ LET id == handlers[h].id
           o == handlers[h].obj
           data == Encoded(handlers[h].args.encoding, handlers[h].args.text)
       IN IF ~success
          THEN /\ Reply(h, Result("tcp_connect_and_send", id,
                                  "connection_failed"))
               /\ UNCHANGED <<connections, pending_triggers, conn_objs>>
          ELSE /\ Registered(id, o)
               /\ IF data.raised
                  THEN /\ conn_objs' = ConnectedObjs(id, o)
                       /\ Reply(h, Result("tcp_connect_and_send", id,
                                          "error"))
                  ELSE /\ conn_objs' = [ConnectedObjs(id, o) EXCEPT
                              ![o].wire = Append(@, data.bytes)]
                       /\ Suspend(h, [handlers[h] EXCEPT
                              !.pc = "cs_send",
                              !.applied = AppliedIds(PendingFor(id)),
                              !.data = data.bytes])
    /\ UNCHANGED conn_vars

\* disconnect() is suspended while it awaits the cancelled loop or the
\* closing transport; on a Connection that is already closed it returns
\* at once
MustWait(o) == conn_objs[o].loop \/ ~conn_objs[o].closed

\* lines 943-950 after disconnect() has returned.  del raises KeyError
\* when the id has left the registry meanwhile; call_tool reports it
CleanedUp(h, objs) ==
    /\ conn_objs' = [objs EXCEPT ![handlers[h].obj].loop = FALSE,
                                 ![handlers[h].obj].closed = TRUE]
    /\ IF handlers[h].id \in DOMAIN connections
       THEN /\ connections' = DictDel(connections, handlers[h].id)
            /\ Reply(h, Result("tcp_connect_and_send", handlers[h].id,
                               "send_failed"))
       ELSE /\ connections' = connections
            /\ Reply(h, Result("tcp_connect_and_send", handlers[h].id,
                               "error"))

\* after send() has returned: lines 938-942.  A failed send has set
\* connected to False; disconnect() does so again and cancels the loop
handle_connect_and_send_sent(h, send_success) ==
    /\ handlers[h].pc = "cs_send"
    /\ tool_calls' = tool_calls
    /\ LET o == handlers[h].obj
           failed == [conn_objs EXCEPT ![o].connected = FALSE]
       IN IF send_success
          THEN /\ conn_objs' = [conn_objs EXCEPT ![o].bytes_sent =
                                    @ + Len(handlers[h].data)]
               /\ Suspend(h, [handlers[h] EXCEPT !.pc = "cs_sleep"])
               /\ connections' = connections
          ELSE IF MustWait(o)
          THEN /\ conn_objs' = failed
               /\ Suspend(h, [handlers[h] EXCEPT !.pc = "cs_disc"])
               /\ connections' = connections
          ELSE CleanedUp(h, failed)
    /\ UNCHANGED pending_triggers
    /\ UNCHANGED conn_vars

\* after disconnect() has returned: lines 942-950
handle_connect_and_send_cleaned(h) ==
    /\ handlers[h].pc = "cs_disc"
    /\ tool_calls' = tool_calls
    /\ CleanedUp(h, conn_objs)
    /\ UNCHANGED pending_triggers
    /\ UNCHANGED conn_vars

\* after asyncio.sleep(0.1): lines 953-976
handle_connect_and_send_done(h) ==
    /\ handlers[h].pc = "cs_sleep"
    /\ tool_calls' = tool_calls
    /\ Reply(h, [Result("tcp_connect_and_send", handlers[h].id, "connected")
                    EXCEPT !.applied = handlers[h].applied])
    /\ UNCHANGED <<connections, pending_triggers, conn_objs>>
    /\ UNCHANGED conn_vars

\* (a bug: the connection stays in the registry after the disconnect)
disconnect_returned_keeping(h, tool, id, objs, o) ==
    /\ conn_objs' = [objs EXCEPT ![o].loop = FALSE, ![o].closed = TRUE]
    /\ connections' = connections
    /\ Reply(h, Result(tool, id, "disconnected"))

\* lines 550-560 after disconnect() has returned
disconnect_returned(h, tool, id, objs, o) ==
    /\ conn_objs' = [objs EXCEPT ![o].loop = FALSE, ![o].closed = TRUE]
    /\ IF id \in DOMAIN connections
       THEN /\ connections' = DictDel(connections, id)
            /\ Reply(h, Result(tool, id, "disconnected"))
       ELSE /\ connections' = connections
            /\ Reply(h, Result(tool, id, "error"))

\* _handle_disconnect: lines 537-550
handle_disconnect(h, id) ==
    /\ CanStart(h)
    /\ tool_calls' = tool_calls + 1
    /\ IF id \notin DOMAIN connections
       THEN /\ Reply(h, Result("tcp_disconnect", id, "not_found"))
            /\ UNCHANGED <<connections, conn_objs>>
       ELSE LET o == connections[id]
                objs == [conn_objs EXCEPT ![o].connected = FALSE]
            IN IF MustWait(o)
               THEN /\ conn_objs' = objs
                    /\ Suspend(h, Waiting("disc", "tcp_disconnect", id, o))
                    /\ connections' = connections
               ELSE disconnect_returned(h, "tcp_disconnect", id, objs, o)
    /\ UNCHANGED pending_triggers
    /\ UNCHANGED conn_vars

\* after disconnect() has returned: lines 550-560
handle_disconnect_done(h) ==
    /\ handlers[h].pc = "disc"
    /\ tool_calls' = tool_calls
    /\ disconnect_returned(h, "tcp_disconnect", handlers[h].id, conn_objs,
                           handlers[h].obj)
    /\ UNCHANGED pending_triggers
    /\ UNCHANGED conn_vars

\* the arguments of a tcp_send, and those of a tcp_set_trigger
SendArg(encoding, text) ==
    [encoding |-> encoding, text |-> text, trigger_id |-> "none",
     pattern |-> 0 - 1]
TriggerArg(id, pattern, encoding, text) ==
    [encoding |-> encoding, text |-> text, trigger_id |-> id,
     pattern |-> pattern]

\* the tcp_set_trigger calls made: the schema lets two trigger ids share a
\* pattern
SetTriggerArgs ==
    {TriggerArg("a", 1, "utf-8", <<7>>), TriggerArg("b", 2, "utf-8", <<8, 9>>),
     TriggerArg("b", 1, "utf-8", <<8, 9>>)}

\* pending[trigger_id] = {...}: an existing key keeps its place
SetPending(pend, e) ==
    IF HasId(pend, e.id)
    THEN [pend EXCEPT ![FirstWithId(pend, e.id)] = e]
    ELSE Append(pend, e)

\* _handle_set_trigger: lines 695-757.  The response is encoded first
handle_set_trigger(h, id, a) ==
    /\ CanStart(h)
    /\ tool_calls' = tool_calls + 1
    /\ LET response == Encoded(a.encoding, a.text)
           e == [id |-> a.trigger_id, pattern |-> a.pattern,
                 response |-> response.bytes]
           result(status) == [Result("tcp_set_trigger", id, status)
                                 EXCEPT !.args = a]
       IN IF response.raised
          THEN /\ Reply(h, result("error"))
               /\ UNCHANGED <<pending_triggers, conn_objs>>
          ELSE IF id \in DOMAIN connections
          THEN /\ conn_objs' = [conn_objs EXCEPT
                      ![connections[id]].triggers =
                          add_trigger(@, e.id, e.pattern, e.response)]
               /\ pending_triggers' = pending_triggers
               /\ Reply(h, result("active"))
          ELSE /\ pending_triggers' =
                      DictSet(pending_triggers, id,
                              SetPending(PendingFor(id), e))
               /\ conn_objs' = conn_objs
               /\ Reply(h, result("pending"))
    /\ connections' = connections
    /\ UNCHANGED conn_vars

\* (a bug: an id whose last pending trigger was removed keeps its entry)
remove_pending_leaving(id, trigger_id) ==
    DictSet(pending_triggers, id,
            RemoveAt(pending_triggers[id],
                     FirstWithId(pending_triggers[id], trigger_id)))

\* lines 790-794: the trigger leaves the pending dict of the id, and an
\* empty dict leaves the table
remove_pending(id, trigger_id) ==
    LET rest == RemoveAt(pending_triggers[id],
                         FirstWithId(pending_triggers[id], trigger_id))
    IN IF rest = <<>> THEN DictDel(pending_triggers, id)
       ELSE DictSet(pending_triggers, id, rest)

\* _handle_remove_trigger: lines 758-822
handle_remove_trigger(h, id, trigger_id) ==
    /\ CanStart(h)
    /\ tool_calls' = tool_calls + 1
    /\ IF id \in DOMAIN connections
       THEN LET trs == conn_objs[connections[id]].triggers IN
            IF HasId(trs, trigger_id)
            THEN /\ conn_objs' = [conn_objs EXCEPT
                        ![connections[id]].triggers =
                            RemoveAt(trs, FirstWithId(trs, trigger_id))]
                 /\ pending_triggers' = pending_triggers
                 /\ Reply(h, Result("tcp_remove_trigger", id,
                                    "removed_active"))
            ELSE /\ Reply(h, Result("tcp_remove_trigger", id, "not_found"))
                 /\ UNCHANGED <<pending_triggers, conn_objs>>
       ELSE IF id \in DOMAIN pending_triggers
               /\ HasId(pending_triggers[id], trigger_id)
       THEN /\ pending_triggers' = remove_pending(id, trigger_id)
            /\ conn_objs' = conn_objs
            /\ Reply(h, Result("tcp_remove_trigger", id, "removed_pending"))
       ELSE /\ Reply(h, Result("tcp_remove_trigger", id, "not_found"))
            /\ UNCHANGED <<pending_triggers, conn_objs>>
    /\ connections' = connections
    /\ UNCHANGED conn_vars

\* the peer closes or the socket fails: the receive loop of the Connection
\* ends and leaves it disconnected
LoopEnds(o) ==
    /\ o <= Len(conn_objs)
    /\ conn_objs[o].loop
    /\ conn_objs' = [conn_objs EXCEPT ![o].loop = FALSE,
                                      ![o].connected = FALSE]
    /\ UNCHANGED <<connections, pending_triggers, handlers, tool_calls,
                   reply>>
    /\ UNCHANGED conn_vars

\* the data of the tcp_connect_and_send calls made: text, and base64 that
\* cannot be decoded ("Q")
ConnectSendArgs == {SendArg("utf-8", <<5, 6>>), SendArg("base64", <<81>>)}

\* the Connection that the server works on stays as constructed
InitShell ==
    /\ ConnInit
    /\ ServerInit

NextShell ==
    \/ \E h \in Callers, id \in ConnIds : handle_connect(h, id)
    \/ \E h \in Callers, ok \in BOOLEAN : handle_connect_done(h, ok)
    \/ \E h \in Callers, id \in ConnIds, a \in ConnectSendArgs :
           handle_connect_and_send(h, id, a)
    \/ \E h \in Callers, ok \in BOOLEAN :
           handle_connect_and_send_connected(h, ok)
    \/ \E h \in Callers, ok \in BOOLEAN :
           handle_connect_and_send_sent(h, ok)
    \/ \E h \in Callers : handle_connect_and_send_cleaned(h)
    \/ \E h \in Callers : handle_connect_and_send_done(h)
    \/ \E h \in Callers, id \in ConnIds : handle_disconnect(h, id)
    \/ \E h \in Callers : handle_disconnect_done(h)
    \/ \E h \in Callers, id \in ConnIds, a \in SetTriggerArgs :
           handle_set_trigger(h, id, a)
    \/ \E h \in Callers, id \in ConnIds, tid \in TriggerIds :
           handle_remove_trigger(h, id, tid)
    \/ \E o \in 1..MaxToolCalls : LoopEnds(o)

SpecShell == InitShell /\ [][NextShell]_vars

\* ------------------------------------------- the tools on a connection
\* conn.send(data) as the handler sees it: False at once when the
\* Connection is not connected (line 68), else the bytes are written and
\* the call is suspended in drain
\* _handle_send: lines 562-610
handle_send(h, id, a) ==
    /\ CanStart(h)
    /\ tool_calls' = tool_calls + 1
    /\ LET data == Encoded(a.encoding, a.text)
           result(status) == [Result("tcp_send", id, status) EXCEPT !.args = a]
       IN IF id \notin DOMAIN connections
          THEN /\ Reply(h, result("not_found"))
               /\ conn_objs' = conn_objs
          ELSE IF data.raised
          THEN /\ Reply(h, result("error"))
               /\ conn_objs' = conn_objs
          ELSE IF ~conn_objs[connections[id]].connected
          THEN /\ Reply(h, result("send_failed"))
               /\ conn_objs' = conn_objs
          ELSE /\ conn_objs' = [conn_objs EXCEPT
                      ![connections[id]].wire = Append(@, data.bytes)]
               /\ Suspend(h, [Waiting("send", "tcp_send", id,
                                      connections[id])
                                 EXCEPT !.args = a, !.data = data.bytes])
    /\ UNCHANGED <<connections, pending_triggers>>
    /\ UNCHANGED conn_vars

\* after send() has returned: lines 592-610
handle_send_done(h, success) ==
    /\ handlers[h].pc = "send"
    /\ tool_calls' = tool_calls
    /\ LET o == handlers[h].obj
           result(status) == [Result("tcp_send", handlers[h].id, status)
                                 EXCEPT !.args = handlers[h].args]
       IN IF success
          THEN /\ conn_objs' = [conn_objs EXCEPT ![o].bytes_sent =
                                    @ + Len(handlers[h].data)]
               /\ Reply(h, result("sent"))
          ELSE /\ conn_objs' = [conn_objs EXCEPT ![o].connected = FALSE]
               /\ Reply(h, result("send_failed"))
    /\ UNCHANGED <<connections, pending_triggers>>
    /\ UNCHANGED conn_vars

\* _handle_read_buffer with format "hex" and neither index nor count:
\* lines 612-649
handle_read_buffer(h, id) ==
    /\ CanStart(h)
    /\ tool_calls' = tool_calls + 1
    /\ IF id \notin DOMAIN connections
       THEN Reply(h, Result("tcp_read_buffer", id, "not_found"))
       ELSE LET buf == conn_objs[connections[id]].buffer IN
            Reply(h, [Result("tcp_read_buffer", id, "data") EXCEPT
                         !.out = [i \in 1..Len(buf) |-> Hex(buf[i])]])
    /\ UNCHANGED <<connections, pending_triggers, conn_objs>>
    /\ UNCHANGED conn_vars

\* _handle_clear_buffer: lines 651-673
handle_clear_buffer(h, id) ==
    /\ CanStart(h)
    /\ tool_calls' = tool_calls + 1
    /\ IF id \notin DOMAIN connections
       THEN /\ Reply(h, Result("tcp_clear_buffer", id, "not_found"))
            /\ conn_objs' = conn_objs
       ELSE /\ conn_objs' = [conn_objs EXCEPT
                   ![connections[id]].buffer = <<>>]
            /\ Reply(h, Result("tcp_clear_buffer", id, "cleared"))
    /\ UNCHANGED <<connections, pending_triggers>>
    /\ UNCHANGED conn_vars

\* _handle_buffer_info (lines 675-693) and _handle_connection_info (lines
\* 848-878): the id is looked up and the Connection is read
handle_info(h, tool, id) ==
    /\ CanStart(h)
    /\ tool_calls' = tool_calls + 1
    /\ IF id \notin DOMAIN connections
       THEN Reply(h, Result(tool, id, "not_found"))
       ELSE Reply(h, Result(tool, id, "info"))
    /\ UNCHANGED <<connections, pending_triggers, conn_objs>>
    /\ UNCHANGED conn_vars

\* tcp_send data: text with a two-byte character, base64 "QQ==" and "Q",
\* and hex "41"
SendArgs ==
    {SendArg("utf-8", <<104, 233>>),
     SendArg("base64", <<81, 81, 61, 61>>),
     SendArg("base64", <<81>>),
     SendArg("hex", <<52, 49>>)}

\* tcp_set_trigger responses: text, base64 "Q" and hex "41"
ToolTriggerArgs ==
    {TriggerArg("a", 1, "utf-8", <<7>>), TriggerArg("b", 2, "base64", <<81>>),
     TriggerArg("b", 2, "hex", <<52, 49>>)}

InfoTools == {"tcp_buffer_info", "tcp_connection_info"}

\* a server with one connection registered, whose buffer holds the chunk
Serving(chunk) ==
    /\ ConnInit
    /\ connections = [k \in {"x"} |-> 1]
    /\ pending_triggers = EmptyDict
    /\ conn_objs = <<[NewConn("x") EXCEPT !.connected = TRUE,
                         !.loop = TRUE, !.buffer = <<chunk>>]>>
    /\ handlers = [h \in Callers |-> IdleHandler]
    /\ tool_calls = 0
    /\ reply = NoReply

InitTools == Serving(<<10, 171>>)

NextTools ==
    \/ \E h \in Callers, id \in ConnIds, a \in SendArgs :
           handle_send(h, id, a)
    \/ \E h \in Callers, ok \in BOOLEAN : handle_send_done(h, ok)
    \/ \E h \in Callers, id \in ConnIds : handle_read_buffer(h, id)
    \/ \E h \in Callers, id \in ConnIds : handle_clear_buffer(h, id)
    \/ \E h \in Callers, id \in ConnIds, tool \in InfoTools :
           handle_info(h, tool, id)
    \/ \E h \in Callers, id \in ConnIds : handle_disconnect(h, id)
    \/ \E h \in Callers : handle_disconnect_done(h)
    \/ \E h \in Callers, id \in ConnIds, a \in ToolTriggerArgs :
           handle_set_trigger(h, id, a)
    \/ \E o \in 1..MaxToolCalls : LoopEnds(o)

SpecTools == InitTools /\ [][NextTools]_vars

\* ------------------------------------------------ hex in and hex out
MaxChunkLen == 2     \* bytes in the chunk that the buffer holds
ByteSample == {0, 10, 171}
ByteSeqs == UNION {[1..n -> ByteSample] : n \in 1..MaxChunkLen}

\* hex data for tcp_send: "41", "0x41", "4 1", "\x41", "a\x41", and the
\* malformed "4", "gg", "\x4" and "\xgg"
HexTexts ==
    {<<52, 49>>, <<48, LOWER_X, 52, 49>>, <<52, 32, 49>>,
     <<BACKSLASH, LOWER_X, 52, 49>>, <<97, BACKSLASH, LOWER_X, 52, 49>>,
     <<52>>, <<103, 103>>, <<BACKSLASH, LOWER_X, 52>>,
     <<BACKSLASH, LOWER_X, 103, 103>>}

\* the hex texts that the last tcp_read_buffer returned, sent back
EchoTexts == {reply.out[i] : i \in 1..Len(reply.out)}

InitCodec == \E b \in ByteSeqs : Serving(b)

\* a caller reads the buffer as hex and sends hex data
NextCodec ==
    \/ \E h \in Callers, t \in HexTexts \cup EchoTexts :
           handle_send(h, "x", SendArg("hex", t))
    \/ \E h \in Callers, ok \in BOOLEAN : handle_send_done(h, ok)
    \/ \E h \in Callers : handle_read_buffer(h, "x")

SpecCodec == InitCodec /\ [][NextCodec]_vars

\* ==================================================================
\* Properties of the Connection
\* ==================================================================

\* C1: in every reachable state bytes_received is the sum of the lengths of
\* all chunks the receive loop has ever appended (every non-empty chunk a
\* socket read returned), whether or not clear_buffer has removed them since.
C1_BytesReceivedIsTotal == bytes_received = SumLen(read_log)

\* two chunks were appended and a clear_buffer removed at least one of them
C1_Witness ==
    /\ Len(read_log) = 2
    /\ cleared_at >= 1
    /\ bytes_received > SumLen(buffer)

\* C2: the buffer is exactly the sequence of non-empty chunks the socket
\* reads returned since the last clear_buffer, in arrival order, each chunk
\* as read.
C2_BufferIsArrivalOrder ==
    buffer = SubSeq(read_log, cleared_at + 1, Len(read_log))

\* two different chunks are in the buffer, and a read_buffer returned them
C2_Witness ==
    /\ Len(buffer) = 2
    /\ buffer[1] # buffer[2]
    /\ last.op = "read_buffer"
    /\ last.out = buffer

\* C3 (as claimed): once connected has gone from true to false, no operation
\* on the Connection, a further connect() included, makes it true again.
\* (connected has been true exactly when a read task was created.)
C3_NeverReconnected ==
    [][((\E t \in Tasks : tasks[t].pc # "none") /\ ~connected)
          => ~connected']_vars

\* C4 (as claimed): at most one receive loop is running at any time, for
\* every sequence of connect and disconnect calls, repeated connect() calls
\* included.
C4_OneReadLoop ==
    Cardinality({t \in Tasks : tasks[t].pc \in {"read", "drain"}}) <= 1

\* C5: while a handshake is pending connected is false, reader and writer
\* are unset, the buffer is empty and no receive loop exists; when the
\* handshake has failed connect() has returned false and all of this still
\* holds.
ConnectFailed == last.op = "connect" /\ last.ret = "false"
C5_FailedConnectLeavesDisconnected ==
    ((\E c \in Callers : callers[c].pc = "connect") \/ ConnectFailed)
       => /\ ~connected
          /\ reader = 0
          /\ writer = 0
          /\ buffer = <<>>
          /\ \A t \in Tasks : tasks[t].pc = "none"

\* connect() has returned false
C5_Witness == ConnectFailed /\ connect_calls = 1

\* the steps of disconnect() calls
DisconnectPending(c) == callers[c].pc \in {"disc_task", "disc_close"}
DisconnectCalled ==
    /\ calls' = calls + 1
    /\ \/ last'.op = "disconnect" /\ callers' = callers
       \/ \E c \in Callers : callers[c].pc = "idle" /\ DisconnectPending(c)'
DisconnectReturned ==
    /\ last'.op = "disconnect"
    /\ \/ calls' = calls + 1 /\ callers' = callers
       \/ \E c \in Callers : DisconnectPending(c) /\ callers'[c].pc = "idle"
\* a step of a call that is not a disconnect(): the call starts, or a
\* suspended send resumes
OtherCallStep ==
    \/ calls' # calls /\ ~DisconnectCalled
    \/ \E c \in Callers : callers[c].pc = "send" /\ callers'[c].pc = "idle"

NeverConnected == \A t \in Tasks : tasks[t].pc = "none"

\* C7: a disconnect() called on a never-connected Connection, or after a
\* disconnect() has completed, returns at once without raising and changes
\* no field of the Connection; every disconnect() that returns, also one whose
\* writer failed to close, returns normally with connected false.
C7_DisconnectIdempotent ==
    [][/\ (DisconnectCalled /\ (disc_returned > 0 \/ NeverConnected))
           => /\ UNCHANGED conn_fields
              /\ callers' = callers
              /\ last' = [op |-> "disconnect", ret |-> "void", out |-> <<>>]
       /\ DisconnectReturned
           => (last'.ret = "void" /\ ~connected')
      ]_vars

\* a second disconnect() has returned, on a Connection that holds a chunk
\* and whose transport had failed before the writer was closed
C7_Witness ==
    /\ disc_returned = 2
    /\ last.op = "disconnect"
    /\ Len(buffer) > 0
    /\ sockets[1].lost = "error"

\* C8: in every state after a disconnect() has returned no receive loop is
\* active (none is created, running or suspended), and no later step adds a
\* chunk to the buffer, changes bytes_received or writes to a socket.
C8_LoopStoppedAfterDisconnect ==
    [][disc_returned' > 0
         => /\ \A t \in Tasks : ~Active(t)'
            /\ disc_returned > 0
                 => /\ Len(buffer') <= Len(buffer)
                    /\ bytes_received' = bytes_received
                    /\ \A s \in Socks : sockets'[s].wire = sockets[s].wire
      ]_vars

\* disconnect() has returned after cancelling a loop that was suspended
\* with a chunk already received
C8_Witness ==
    /\ disc_returned > 0
    /\ tasks[1].exit = "cancel"
    /\ Len(buffer) > 0

\* C9 (as claimed): under fair scheduling every disconnect() that has
\* suspended completes, with no receive loop active.
C9_DisconnectCompletes ==
    \A c \in Callers :
        DisconnectPending(c)
           ~> (callers[c].pc = "idle" /\ \A t \in Tasks : ~Active(t))

\* the steps that start a send() call
SendCalled ==
    /\ calls' = calls + 1
    /\ \/ last'.op = "send" /\ callers' = callers
       \/ \E c \in Callers : callers[c].pc = "idle" /\ callers'[c].pc = "send"

\* C10 (as claimed): a send() called while connected is false or there is
\* no writer returns false at once, writes nothing, leaves bytes_sent
\* unchanged and leaves connected false.
C10_SendWhenNotConnected ==
    [][(SendCalled /\ (~connected \/ writer = 0))
         => /\ last' = [op |-> "send", ret |-> "false", out |-> <<>>]
            /\ callers' = callers
            /\ sockets' = sockets
            /\ bytes_sent' = bytes_sent
            /\ ~connected'
      ]_vars

\* a suspended send() resumes and returns r
SendResumed(c, r) ==
    /\ callers[c].pc = "send"
    /\ callers'[c].pc = "idle"
    /\ last'.op = "send"
    /\ last'.ret = r

\* C11: when the write or the flush of a send() raises, on a Connection
\* that was connected with a writer when send() was called, send() returns
\* false, connected is false afterwards and bytes_sent is not changed; a
\* send() never returns anything but true or false.
C11_SendErrorReturnsFalse ==
    [][/\ \A c \in Callers : SendResumed(c, "false")
            => (~connected' /\ bytes_sent' = bytes_sent)
       /\ (SendCalled /\ connected /\ writer # 0 /\ callers' = callers)
            => /\ last' = [op |-> "send", ret |-> "false", out |-> <<>>]
               /\ ~connected'
               /\ bytes_sent' = bytes_sent
       /\ last'.op = "send" => last'.ret \in {"true", "false"}
      ]_vars

\* a send() wrote its data, its flush raised and it has returned false, with
\* nothing counted
C11_Witness ==
    /\ last.op = "send"
    /\ last.ret = "false"
    /\ sockets[1].wire = <<<<5, 6>>>>
    /\ sockets[1].lost = "error"
    /\ ~connected
    /\ bytes_sent = 0
    /\ \A t \in Tasks : tasks[t].exit # "error"

\* a send made by the trigger dispatch of task t returns true: the loop
\* goes on from its drain, not cancelled and with the transport not failed
TriggerSendOk(t) ==
    /\ tasks[t].pc = "drain"
    /\ (tasks'[t].pc # "drain" \/ tasks'[t].left < tasks[t].left)
    /\ ~tasks[t].must_cancel
    /\ ~tasks'[t].must_cancel
    /\ sockets'[tasks[t].wr].lost # "error"

\* C12: bytes_sent grows by len(data) in the step in which a send() of a
\* caller returns true, by the length of the response in the step in which
\* a send of the trigger dispatch returns true, and changes in no other
\* step: it is the sum of the lengths of all successful sends of both paths
\* and never decreases.
C12_BytesSentIsTotal ==
    [][/\ \A c \in Callers : SendResumed(c, "true")
            => bytes_sent' = bytes_sent + Len(callers[c].data)
       /\ \A t \in Tasks : TriggerSendOk(t)
            => bytes_sent' = bytes_sent + Len(tasks[t].resp)
       /\ ((\A c \in Callers : ~SendResumed(c, "true"))
              /\ (\A t \in Tasks : ~TriggerSendOk(t)))
            => bytes_sent' = bytes_sent
       /\ bytes_sent' >= bytes_sent
      ]_vars

\* a send() of a caller and a send of the trigger dispatch have both
\* succeeded and both are counted
C12_Witness ==
    /\ last.op = "send"
    /\ last.ret = "true"
    /\ Len(triggers) = 1
    /\ Len(sockets[1].wire) = 2
    /\ bytes_sent = 2 + Len(triggers[1].response)
    /\ \A t \in Tasks : tasks[t].pc # "drain"

\* the receive loop of task t ends on a read that returned b"" or raised
ReadEnded(t) ==
    /\ tasks[t].pc = "read"
    /\ tasks'[t].pc = "done"
    /\ tasks'[t].exit \in {"eof", "error"}

\* C13: the step in which a read of the receive loop returns no bytes or
\* raises ends the loop normally with connected false, and leaves the
\* buffer and bytes_received as they are; no read task ever ends in an
\* exception.
C13_ReadEndTerminatesLoop ==
    [][/\ \A t \in Tasks : ReadEnded(t)
            => /\ ~connected'
               /\ buffer' = buffer
               /\ bytes_received' = bytes_received
               /\ read_log' = read_log
       /\ \A t \in Tasks :
            (tasks[t].pc = "read" /\ ~tasks[t].must_cancel
               /\ tasks'[t].pc # "read" /\ read_log' = read_log)
            => ReadEnded(t)
       /\ \A t \in Tasks : tasks'[t].pc \in
                                 {"none", "new", "read", "drain", "done",
                                  "cancelled"}
      ]_vars

\* the loop has ended on a remote close after it had received a chunk
C13_Witness ==
    /\ tasks[1].exit = "eof"
    /\ Len(buffer) = 1
    /\ bytes_received = Len(buffer[1])
    /\ ~connected
    /\ calls = 0

\* C14: the step in which a cancellation request reaches the receive loop
\* ends the loop and leaves connected, the buffer and the counters as they
\* are.
C14_CancelOnlyEndsLoop ==
    [][\A t \in Tasks :
          (tasks[t].must_cancel /\ tasks'[t].pc # tasks[t].pc)
            => /\ tasks'[t].pc \in {"done", "cancelled"}
               /\ UNCHANGED <<connected, buffer, bytes_sent, bytes_received>>
      ]_vars

\* a loop that had received a chunk was cancelled while connected is true
C14_Witness ==
    /\ tasks[1].exit = "cancel"
    /\ connected
    /\ Len(buffer) > 0
    /\ bytes_received = SumLen(buffer)

\* the chunks at the 0-based positions p with lo <= p < hi that the buffer has
ChunksAt(buf, lo, hi) == SubSeq(buf, Max(lo, 0) + 1, Min(hi, Len(buf)))

\* C15 (as claimed): for every buffer and all integer arguments,
\* read_buffer() returns the whole buffer, read_buffer(index) the chunks at
\* the positions from index to the end, read_buffer(index, count) the chunks
\* at the positions [index, index+count) that the buffer has; an index at or
\* past the end gives the empty sequence; the result is always a list.
C15_ReadBufferRanges ==
    [][\A c \in Callers, index \in IndexArgs, count \in CountArgs :
          ReadBuffer(c, index, count)
            => /\ last'.ret = "list"
               /\ (index = <<>> /\ count = <<>>) => last'.out = buffer
               /\ (index # <<>> /\ count = <<>>)
                    => last'.out = ChunksAt(buffer, index[1], Len(buffer))
               /\ (index # <<>> /\ count # <<>>)
                    => last'.out =
                          ChunksAt(buffer, index[1], index[1] + count[1])
      ]_vars

\* what the list that the last read_buffer handed to its caller holds: a
\* list of its own keeps what it was given, the buffer list itself holds
\* whatever the buffer holds
ReturnedList == IF last.ret = "self.buffer" THEN buffer ELSE last.out
ReturnedListAfterStep == IF last.ret = "self.buffer" THEN buffer' ELSE last.out

\* C16: a read_buffer changes no field of the Connection, no task and no
\* socket, and returns a new list; no step after it (an append of the
\* receive loop, a clear_buffer) changes what the returned list holds.
C16_ReadBufferCopies ==
    [][/\ (last' # last /\ last'.op = "read_buffer")
            => /\ UNCHANGED <<conn_fields, tasks, sockets>>
               /\ last'.ret = "list"
       /\ last.op = "read_buffer" => ReturnedListAfterStep = ReturnedList
      ]_vars

\* a read_buffer returned the one chunk of the buffer, and the loop has
\* appended another chunk since
C16_Witness ==
    /\ last.op = "read_buffer"
    /\ Len(buffer) = 2
    /\ buffer[1] # buffer[2]
    /\ last.out = <<buffer[1]>>

\* C17 (as claimed): a read_buffer that is given a count, with or without
\* an index, returns at most count chunks.
C17_CountLimitsResult ==
    [][\A c \in Callers, index \in IndexArgs, count \in CountArgs :
          (count # <<>> /\ ReadBuffer(c, index, count))
            => Len(last'.out) <= Max(count[1], 0)
      ]_vars

\* the step of a clear_buffer() call
ClearStep ==
    /\ calls' = calls + 1
    /\ last'.op = "clear_buffer"
    /\ callers' = callers

\* C18: a clear_buffer() empties the buffer in one step and changes nothing
\* else of the Connection, its tasks and its sockets; a get_buffer_info taken
\* right after it gives chunks 0 and total_bytes 0 with the counters and
\* connected as before the clear.
C18_ClearOnlyEmptiesBuffer ==
    [][ClearStep
         => /\ buffer' = <<>>
            /\ UNCHANGED <<connected, reader, writer, triggers, bytes_sent,
                           bytes_received, read_task, tasks, sockets>>
            /\ get_buffer_info' =
                  [chunks |-> 0, total_bytes |-> 0,
                   bytes_sent |-> bytes_sent,
                   bytes_received |-> bytes_received,
                   connected |-> connected]
      ]_vars

\* a chunk that trigger "b" does not match was received and cleared, and
\* the response of "b" to the chunk received after the clear is on the wire
C18_Witness ==
    /\ cleared_at = 1
    /\ read_log = <<<<1>>, <<2, 1>>>>
    /\ buffer = <<<<2, 1>>>>
    /\ bytes_received = 3
    /\ Len(triggers) = 1
    /\ triggers[1].id = "b"
    /\ sockets[1].wire = <<<<8, 9>>>>

\* C19: every get_buffer_info result gives the length and the byte total of
\* the buffer and the two counters of one and the same state, the state it
\* is taken in, with total_bytes <= bytes_received; in every state the bytes
\* in the buffer are already counted in bytes_received.
C19_BufferInfoIsSnapshot ==
    [][/\ (last' # last /\ last'.op = "get_buffer_info")
            => /\ last'.out.chunks = Len(buffer')
               /\ last'.out.total_bytes = SumLen(buffer')
               /\ last'.out.bytes_received = bytes_received'
               /\ last'.out.bytes_sent = bytes_sent'
               /\ last'.out.connected = connected'
               /\ last'.out.total_bytes <= last'.out.bytes_received
       /\ SumLen(buffer') <= bytes_received'
      ]_vars

\* a get_buffer_info was taken after a clear and a further chunk, while a
\* send is suspended in its flush and the loop in its read
C19_Witness ==
    /\ last.op = "get_buffer_info"
    /\ last.out.chunks = 1
    /\ last.out.total_bytes < last.out.bytes_received
    /\ \E c \in Callers : callers[c].pc = "send"
    /\ tasks[1].pc = "read"

\* the pattern occurs somewhere in the chunk
OccursIn(pattern, data) == \E i \in 1..Len(data) : data[i] = pattern

\* the stored responses of the triggers of the map whose pattern occurs in
\* the chunk, one each, in the order of the map
RECURSIVE ResponsesTo(_, _)
ResponsesTo(trs, data) ==
    IF trs = <<>> THEN <<>>
    ELSE (IF OccursIn(Head(trs).pattern, data)
          THEN <<Head(trs).response>> ELSE <<>>)
         \o ResponsesTo(Tail(trs), data)

\* ... for every chunk of a sequence of chunks
RECURSIVE ResponsesToAll(_, _)
ResponsesToAll(trs, log) ==
    IF log = <<>> THEN <<>>
    ELSE ResponsesTo(trs, Head(log)) \o ResponsesToAll(trs, Tail(log))

\* C20 (as claimed): whenever the receive loop is back in its read, with
\* every send so far successful, what was sent is, for each chunk appended,
\* exactly one stored response for each registered trigger whose pattern
\* occurs in the chunk, unchanged, and nothing for the other triggers.
C20_MatchSendsResponse ==
    tasks[1].pc = "read" => sockets[1].wire = ResponsesToAll(triggers, read_log)

\* the writes on the wire that are stored responses of triggers of the map
SentFor(trs, wire) ==
    SelectSeq(wire, LAMBDA w : \E i \in 1..Len(trs) : trs[i].response = w)

\* every pattern of the map is a regular expression
AllValid(trs) == \A i \in 1..Len(trs) : ~Raises(trs[i].pattern)

\* C21 (as claimed): with every pattern a valid expression, whenever the
\* receive loop is back in its read, for each chunk appended the responses
\* of all triggers that match it and were registered throughout have been
\* sent, in registration order, whatever sends, add_trigger and
\* remove_trigger calls ran during the dispatch.  (Callers here add only a
\* trigger that matches nothing, so a matching trigger that is registered
\* has been registered from the start.)
C21_AllMatchingRespond ==
    (tasks[1].pc = "read" /\ AllValid(triggers))
       => SentFor(triggers, sockets[1].wire)
             = ResponsesToAll(triggers, read_log)

\* how many writes on the wire are the response r
Sent(r, wire) == Len(SelectSeq(wire, LAMBDA w : w = r))

\* how many chunks of the log the pattern occurs in
Occurrences(pattern, log) ==
    Len(SelectSeq(log, LAMBDA d : OccursIn(pattern, d)))

\* C22 (as claimed): a trigger whose pattern cannot be evaluated does not
\* keep the other triggers from being evaluated: whenever the receive loop
\* is back in its read with such a trigger in the map, every other trigger
\* has been answered once for each chunk it matches.
C22_FailureIsolated ==
    (tasks[1].pc = "read"
       /\ \E i \in 1..Len(triggers) : Raises(triggers[i].pattern))
      => \A i \in 1..Len(triggers) :
            ~Raises(triggers[i].pattern)
               => Sent(triggers[i].response, sockets[1].wire)
                     = Occurrences(triggers[i].pattern, read_log)

\* a read of task t returns a chunk
ChunkRead(t) == tasks[t].pc = "read" /\ read_log' # read_log

\* the for loop of _check_triggers, entered or resumed at position i with
\* left entries to go, raises: re.error on a pattern, or RuntimeError
\* because an entry is found that the iterator did not expect
RaisesFrom(i, left, data) ==
    LET hi == Min(i + left - 1, Len(triggers))
        j == FirstMatch(i, hi, data)
    IN \/ j # 0 /\ Raises(triggers[j].pattern)
       \/ j = 0 /\ hi < Len(triggers)

\* the step of task t in which the evaluation of the triggers raises
EvalFails(t) ==
    \/ /\ ChunkRead(t)
       /\ RaisesFrom(1, Len(triggers), read_log'[Len(read_log')])
    \/ /\ TriggerSendOk(t)
       /\ \/ Len(triggers) # tasks[t].used
          \/ RaisesFrom(tasks[t].idx + 1, tasks[t].left, tasks[t].data)

\* the step of task t in which a send of the dispatch fails
SendFails(t) ==
    /\ tasks[t].pc \in {"read", "drain"}
    /\ ~tasks[t].must_cancel
    /\ tasks'[t].exit = "cond"
    /\ connected /\ ~connected'

\* the chunk the step appended, if any, is in the buffer, and nothing is gone
KeepsChunk(t) ==
    IF ChunkRead(t)
    THEN buffer' = Append(buffer, read_log'[Len(read_log')])
    ELSE buffer' = buffer

\* C23: the step in which the evaluation of the triggers raises leaves
\* connected as it is and the chunk in the buffer, and the loop is in its
\* next read if the connection is connected; the step in which a send of
\* the dispatch fails keeps the chunk too and ends the loop normally; a loop
\* that was not cancelled ends only with connected false.
C23_DispatchFailureAbsorbed ==
    [][\A t \in Tasks :
          /\ EvalFails(t)
               => /\ connected' = connected
                  /\ KeepsChunk(t)
                  /\ tasks'[t].pc =
                        IF connected /\ reader # 0 THEN "read" ELSE "done"
                  /\ tasks'[t].exit \in {"none", "cond"}
          /\ SendFails(t) => (KeepsChunk(t) /\ tasks'[t].pc = "done")
          /\ (tasks[t].pc \in {"read", "drain"} /\ ~tasks[t].must_cancel
                 /\ tasks'[t].pc = "done")
               => ~connected'
      ]_vars

\* the first trigger of the map has a pattern that cannot be evaluated, two
\* chunks were received, both are in the buffer and the loop is in its
\* third read
C23_Witness ==
    /\ Len(triggers) = 2
    /\ Raises(triggers[1].pattern)
    /\ Len(read_log) = 2
    /\ buffer = read_log
    /\ tasks[1].pc = "read"
    /\ connected

\* the positions of the map that hold the pattern
WithPattern(trs, p) == {i \in 1..Len(trs) : trs[i].pattern = p}

\* the loop of task t writes a response in this step
ResponseWritten(t) ==
    /\ tasks'[t].pc = "drain"
    /\ tasks[t].pc = "read" \/ tasks'[t].left < tasks[t].left

\* C24: after every add_trigger exactly one entry of the map has the
\* pattern given, with the id and the response given; an add_trigger with a
\* pattern already in the map changes that entry in its place and no other;
\* every response the loop writes is the response that the map holds, at
\* that time, for a pattern occurring in the chunk.
C24_SamePatternReplaces ==
    [][/\ \A c \in Callers, a \in AddArgs :
            AddTrigger(c, a.id, a.pattern, a.response)
              => /\ \E i \in 1..Len(triggers') :
                       /\ WithPattern(triggers', a.pattern) = {i}
                       /\ triggers'[i].id = a.id
                       /\ triggers'[i].response = a.response
                 /\ HasPattern(triggers, a.pattern)
                      => /\ Len(triggers') = Len(triggers)
                         /\ \A i \in 1..Len(triggers) :
                               triggers[i].pattern # a.pattern
                                  => triggers'[i] = triggers[i]
       /\ \A t \in Tasks :
            ResponseWritten(t)
              => \E i \in 1..Len(triggers') :
                    /\ OccursIn(triggers'[i].pattern, tasks'[t].data)
                    /\ WithPattern(triggers', triggers'[i].pattern) = {i}
                    /\ tasks'[t].resp = triggers'[i].response
                    /\ sockets'[tasks'[t].wr].wire
                          = Append(sockets[tasks'[t].wr].wire,
                                   triggers'[i].response)
      ]_vars

\* trigger "a" answered a chunk, an add_trigger with its pattern put "b"
\* with another response in its place, and the next chunk was answered with
\* the response of "b" alone
C24_Witness ==
    /\ triggers = <<[pattern |-> 1, id |-> "b", response |-> <<8, 9>>]>>
    /\ last.op = "add_trigger"
    /\ calls = 1
    /\ read_log = <<<<1>>, <<1>>>>
    /\ sockets[1].wire = <<<<7>>, <<8, 9>>>>

\* the trigger ids a get_triggers result lists, in its order
ListedIds(out) == [i \in 1..Len(out) |-> out[i].trigger_id]

\* C25 (as claimed): after any add_trigger and remove_trigger calls, no
\* get_triggers result lists a trigger id twice.
C25_TriggerIdsUnique ==
    last.op = "get_triggers"
       => \A i, j \in 1..Len(last.out) :
             ListedIds(last.out)[i] = ListedIds(last.out)[j] => i = j

\* C26 (as claimed): a remove_trigger with an id that no stored trigger has
\* returns false and leaves the map as it is; with an id that a stored
\* trigger has it returns true, and get_triggers taken right after it lists
\* no entry with that id.
C26_RemoveTriggerById ==
    [][\A c \in Callers, id \in TriggerIds :
          RemoveTrigger(c, id)
            => IF HasId(triggers, id)
               THEN /\ last'.ret = "true"
                    /\ \A i \in 1..Len(triggers') :
                          get_triggers(triggers')[i].trigger_id # id
               ELSE /\ last'.ret = "false"
                    /\ triggers' = triggers
      ]_vars

\* task t is in the middle of its read of the trigger map: the for loop of
\* _check_triggers is suspended in a send with its iterator on the map
ReadingTriggers(t) == tasks[t].pc = "drain"

\* C27 (as claimed): the accesses to the trigger map exclude one another as
\* accesses under one lock do: while the receive loop is in the middle of
\* its read of the map, no step changes the map.
C27_TriggerMapGuarded ==
    [][(\E t \in Tasks : ReadingTriggers(t)) => triggers' = triggers]_vars

\* the position in the map of the trigger whose send fails in this step
FailedAt(t) ==
    IF tasks[t].pc = "drain" THEN tasks[t].idx
    ELSE FirstMatch(1, Len(triggers), read_log'[Len(read_log')])

\* with connected false, the step appends no chunk and writes no response
QuietWhenDisconnected ==
    ~connected
       => /\ read_log' = read_log
          /\ Len(buffer') <= Len(buffer)
          /\ \A t \in Tasks : ~ResponseWritten(t)

CreatingTools == {"tcp_connect", "tcp_connect_and_send"}

\* this step begins a call of the tool for the id: its handler is left
\* suspended, or the call has returned within the step
CallStarted(tool, id) ==
    /\ tool_calls' = tool_calls + 1
    /\ \/ \E h \in Callers :
              /\ handlers[h].pc = "idle"
              /\ handlers'[h].pc # "idle"
              /\ handlers'[h].tool = tool
              /\ handlers'[h].id = id
       \/ /\ handlers' = handlers
          /\ reply'.tool = tool
          /\ reply'.id = id

\* C29: tcp_connect and tcp_connect_and_send called with an id that is in
\* the registry return duplicate_id within the call, create no Connection
\* (so open no socket), and leave the registry, every existing Connection
\* and the pending-trigger table as they were.
C29_DuplicateIdRefused ==
    [][\A tool \in CreatingTools, id \in ConnIds :
          (CallStarted(tool, id) /\ id \in DOMAIN connections)
          => /\ handlers' = handlers
             /\ reply' = Result(tool, id, "duplicate_id")
             /\ UNCHANGED <<connections, conn_objs, pending_triggers>>]_vars

\* a duplicate id has been refused while its connection is registered and
\* another id has triggers pending
C29_Witness ==
    /\ reply.status = "duplicate_id"
    /\ reply.id \in DOMAIN connections
    /\ conn_objs[connections[reply.id]].connected
    /\ DOMAIN pending_triggers # {}

\* ------------------------------------------------------------------ C30
\* the Connections created for the id that are connected with their
\* receive loop running
LiveFor(id) ==
    {o \in 1..Len(conn_objs) :
        /\ conn_objs[o].id = id
        /\ conn_objs[o].connected
        /\ conn_objs[o].loop}

\* C30: of the tool calls that race to create one connection id at most
\* one registers a connection, and every connected Connection whose
\* receive loop runs is the one the registry holds under its id.
C30_CreationSerialized ==
    \A id \in ConnIds :
        /\ Cardinality(LiveFor(id)) <= 1
        /\ \A o \in LiveFor(id) :
               id \in DOMAIN connections /\ connections[id] = o

\* ------------------------------------------------------------------ C31
\* this step is the registration of the Connection that handler h created
ConnectSucceeds(h) ==
    /\ handlers[h].pc \in {"connect", "cs_connect"}
    /\ handlers'[h].pc # handlers[h].pc
    /\ conn_objs'[handlers[h].obj].connected

\* the applied_triggers that the call of handler h reports
AppliedReported(h) ==
    IF handlers[h].pc = "connect" THEN reply'.applied
    ELSE handlers'[h].applied

\* the trigger id is active on the map with this pattern and response
ActiveOn(trs, id, pattern, response) ==
    \E i \in 1..Len(trs) :
        trs[i] = [pattern |-> pattern, id |-> id, response |-> response]

\* C31: a trigger set for an id that is not in the registry is stored as
\* pending; when a tcp_connect or tcp_connect_and_send for the id succeeds,
\* every trigger that was pending for it, and every id it reports as
\* applied, is active on the new Connection with its pattern and response,
\* and no pending entry remains for the id.
C31_PendingTriggersApplied ==
    [][/\ \A id \in ConnIds :
             (CallStarted("tcp_set_trigger", id)
                 /\ id \notin DOMAIN connections
                 /\ reply'.status # "error")
             => /\ reply'.status = "pending"
                /\ ActiveOn(PendingFor(id)', reply'.args.trigger_id,
                            reply'.args.pattern,
                            Encoded(reply'.args.encoding,
                                    reply'.args.text).bytes)
       /\ \A h \in Callers :
             ConnectSucceeds(h)
             => LET id == handlers[h].id
                    trs == conn_objs'[handlers[h].obj].triggers
                    pend == PendingFor(id)
                IN  /\ \A i \in 1..Len(pend) :
                           ActiveOn(trs, pend[i].id, pend[i].pattern,
                                    pend[i].response)
                    /\ \A k \in 1..Len(AppliedReported(h)) :
                           \E j \in 1..Len(trs) :
                               trs[j].id = AppliedReported(h)[k]
                    /\ id \notin DOMAIN pending_triggers']_vars

\* ------------------------------------------------------------------ C32
\* this step ends the tcp_connect or tcp_connect_and_send call of handler
\* h in an error
EndsInError(h) ==
    /\ handlers[h].tool \in CreatingTools
    /\ handlers[h].pc # "idle"
    /\ handlers'[h].pc = "idle"
    /\ reply'.status \in {"connection_failed", "send_failed", "error"}

\* C32: a tcp_connect or tcp_connect_and_send call that ends in an error
\* (connection_failed, send_failed, an encoding error) leaves no
\* Connection it created in the registry and has taken no trigger out of
\* the pending table of its id.
C32_FailedCreationHasNoEffect ==
    [][\A h \in Callers :
          EndsInError(h)
          => /\ \A id \in DOMAIN connections' :
                    connections'[id] # handlers[h].obj
             /\ handlers[h].applied = <<>>
             /\ PendingFor(handlers[h].id)' = PendingFor(handlers[h].id)]_vars

\* ------------------------------------------------------------------ C37
\* C37: no connection id is a key of the registry and of the pending table
\* at the same time, and the pending table maps no id to an empty set of
\* triggers, under every interleaving of the handlers.
C37_RegistryAndPendingDisjoint ==
    /\ DOMAIN connections \cap DOMAIN pending_triggers = {}
    /\ \A id \in DOMAIN pending_triggers : pending_triggers[id] # <<>>

\* the last pending trigger of an id has been removed while another
\* id is registered
C37_Witness ==
    /\ reply.status = "removed_pending"
    /\ reply.id \notin DOMAIN pending_triggers
    /\ DOMAIN connections # {}

\* ------------------------------------------------------------------ C33
NotFoundTools == {"tcp_disconnect", "tcp_send", "tcp_read_buffer",
                  "tcp_clear_buffer", "tcp_buffer_info",
                  "tcp_connection_info"}

\* this step is the successful return of a tcp_disconnect for the id
DisconnectSucceeds(id) ==
    /\ reply'.tool = "tcp_disconnect"
    /\ reply'.id = id
    /\ reply'.status = "disconnected"
    /\ \/ CallStarted("tcp_disconnect", id)
       \/ \E h \in Callers : /\ handlers[h].pc = "disc"
                             /\ handlers[h].id = id
                             /\ handlers'[h].pc = "idle"

\* C33: tcp_disconnect, tcp_send, tcp_read_buffer, tcp_clear_buffer,
\* tcp_buffer_info and tcp_connection_info called with an id that is not
\* in the registry return not_found and change neither the registry, nor
\* any Connection, nor the pending table; when a tcp_disconnect returns
\* success its id is no longer in the registry (so a repeated
\* tcp_disconnect meets the first case).
C33_NotFoundChangesNothing ==
    [][/\ \A tool \in NotFoundTools, id \in ConnIds :
             (CallStarted(tool, id) /\ id \notin DOMAIN connections)
             => /\ handlers' = handlers
                /\ reply'.status = "not_found"
                /\ UNCHANGED <<connections, conn_objs, pending_triggers>>
       /\ \A id \in ConnIds :
             DisconnectSucceeds(id) => id \notin DOMAIN connections']_vars

\* a repeated tcp_disconnect of the id that was registered has returned
\* not_found
C33_Witness ==
    /\ reply.tool = "tcp_disconnect"
    /\ reply.id = "x"
    /\ reply.status = "not_found"
    /\ conn_objs[1].closed

\* ------------------------------------------------------------------ C34
\* the data arguments of the call that this step begins
StartedArgs ==
    IF handlers' = handlers THEN reply'.args
    ELSE handlers'[CHOOSE h \in Callers : handlers'[h] # handlers[h]].args

\* C34: a tcp_send or tcp_set_trigger whose base64 data cannot be decoded
\* ends in an error within the call, writes nothing to any socket,
\* registers no trigger, active or pending, and leaves every Connection
\* and its counters unchanged.
C34_Base64FailureIsAnError ==
    [][\A tool \in {"tcp_send", "tcp_set_trigger"}, id \in ConnIds :
          (/\ CallStarted(tool, id)
           /\ StartedArgs.encoding = "base64"
           /\ b64decode(StartedArgs.text).raised)
          => /\ handlers' = handlers
             /\ reply'.status \in {"error", "not_found"}
             /\ tool = "tcp_set_trigger" => reply'.status = "error"
             /\ UNCHANGED <<connections, conn_objs, pending_triggers>>]_vars

\* a tcp_send of undecodable base64 to a registered, connected Connection
\* has ended in the error
C34_Witness ==
    /\ reply.tool = "tcp_send"
    /\ reply.status = "error"
    /\ reply.args.encoding = "base64"
    /\ reply.id \in DOMAIN connections
    /\ conn_objs[connections[reply.id]].connected

\* ------------------------------------------------------------------ C35
\* C35: a tcp_send with encoding hex whose data is the lowercase hex text
\* of a chunk (as tcp_read_buffer returns it) is decoded without error and
\* writes exactly the bytes of that chunk.
C35_HexRoundTrip ==
    [][\A i \in 1..Len(conn_objs[1].buffer) :
          (/\ CallStarted("tcp_send", "x")
           /\ StartedArgs.encoding = "hex"
           /\ StartedArgs.text = Hex(conn_objs[1].buffer[i]))
          => /\ reply'.status # "error"
             /\ conn_objs[1].connected
                => conn_objs'[1].wire =
                       Append(conn_objs[1].wire, conn_objs[1].buffer[i])]_vars

\* the hex text read from the buffer was sent back and the chunk, with a
\* byte below 16 in it, went out again
C35_Witness ==
    /\ reply.tool = "tcp_send"
    /\ reply.status = "sent"
    /\ reply.args.text = Hex(conn_objs[1].buffer[1])
    /\ conn_objs[1].wire # <<>>
    /\ conn_objs[1].wire[Len(conn_objs[1].wire)] = conn_objs[1].buffer[1]
    /\ \E k \in 1..Len(conn_objs[1].buffer[1]) :
           conn_objs[1].buffer[1][k] = 10

\* ------------------------------------------------------------------ C36
\* C36: the hex decoder raises on no input: a tcp_send with encoding hex
\* never ends in call_tool's error, and data that has no escape and is not
\* valid plain hex is sent as the UTF-8 encoding of the unmodified text.
C36_HexNeverFails ==
    [][(CallStarted("tcp_send", "x") /\ StartedArgs.encoding = "hex")
       => /\ reply'.status # "error" \/ handlers' # handlers
          /\ (/\ ~Contains(StartedArgs.text, <<BACKSLASH, LOWER_X>>)
              /\ fromhex(clean_hex(StartedArgs.text)).raised
              /\ conn_objs[1].connected)
             => conn_objs'[1].wire =
                    Append(conn_objs[1].wire, Utf8(StartedArgs.text))]_vars

\* ------------------------------------------------------------------ C38
\* C38: once a disconnect() has returned no step changes bytes_sent,
\* bytes_received or connected, and no step but a clear_buffer() call
\* changes the buffer, also when a send() was suspended in its flush at the
\* time disconnect() was called.
C38_InertAfterDisconnect ==
    [][disc_returned > 0
         => /\ bytes_sent' = bytes_sent
            /\ bytes_received' = bytes_received
            /\ connected' = connected
            /\ buffer' # buffer
                 => (calls' = calls + 1 /\ last'.op = "clear_buffer")]_vars

\* ------------------------------------------------------------------ C39
\* in this step the receive loop t writes a trigger response
\* (a step of the loop, not of a call that cancels the task or moves its
\* iterator)
LoopWrites(t) ==
    /\ tasks'[t].pc = "drain"
    /\ tasks'[t] # tasks[t]
    /\ calls' = calls

\* in this step the receive loop takes a chunk from the socket
ChunkTaken == read_log' # read_log

\* C39: the chunk a read returns is appended to the buffer and counted in
\* the step that reads it, before any response to it is written; every
\* response the loop writes is the response of a trigger that matches the
\* chunk read last, written while that chunk is being evaluated; no chunk
\* is read while a response of the loop is in flight; an add_trigger
\* writes nothing, and a trigger added during or after the evaluation of a
\* chunk is not fired on that chunk.
C39_ChunkSequencing ==
    [][/\ ChunkTaken
           => /\ \A t \in Tasks : tasks[t].pc # "drain"
              /\ buffer' = Append(buffer, read_log'[Len(read_log')])
              /\ bytes_received' = SumLen(read_log')
       /\ \A t \in Tasks :
             LoopWrites(t)
             => /\ read_log' # <<>>
                /\ tasks'[t].data = read_log'[Len(read_log')]
                /\ bytes_received' = SumLen(read_log')
                /\ ChunkTaken \/ tasks[t].pc = "drain"
                /\ tasks[t].pc = "drain" => Len(triggers) = tasks[t].used
                /\ \E i \in 1..Len(triggers) :
                      /\ triggers[i].response = tasks'[t].resp
                      /\ Matches(triggers[i].pattern, tasks'[t].data)
                /\ sockets'[tasks'[t].wr].wire =
                       Append(sockets[tasks'[t].wr].wire, tasks'[t].resp)
       /\ (\E s \in Socks : sockets'[s].wire # sockets[s].wire)
             => \/ \E t \in Tasks : LoopWrites(t)
                \/ \E c \in Callers : /\ callers[c].pc = "idle"
                                      /\ callers'[c].pc = "send"
       /\ (calls' = calls + 1 /\ last' # last /\ last'.op = "add_trigger")
             => (sockets' = sockets /\ tasks' = tasks)]_vars

\* a trigger that matches both chunks received has been answered once,
\* for the second chunk: it was added after the first had been evaluated
C39_Witness ==
    /\ Len(read_log) = 2
    /\ Len(triggers) = 1
    /\ Matches(triggers[1].pattern, read_log[1])
    /\ Matches(triggers[1].pattern, read_log[2])
    /\ tasks[1].pc = "drain"
    /\ sockets[1].wire = <<triggers[1].response>>
    /\ bytes_sent = 0

\* ------------------------------------------------------------------ C40
\* the cancellation request reaches the receive loop t in this step
CancelDelivered(t) ==
    /\ Active(t)
    /\ tasks'[t].pc \in {"done", "cancelled"}
    /\ tasks'[t].exit = "cancel"

\* C40: in no state is the lock held, that is, no task is suspended while
\* it holds the lock; so whenever a caller may call read_buffer,
\* clear_buffer or get_buffer_info, and whenever the loop's read can return
\* a chunk, the step that takes the lock is enabled; the step in which a
\* cancellation reaches the loop leaves the lock free and changes neither
\* the buffer nor the chunks read, and every chunk a read has returned has
\* been appended.
C40_LockNeverBlocks ==
    [][/\ lock = 0 /\ lock' = 0
       /\ \A c \in Callers :
             /\ CanQuery(c) => (/\ ENABLED ReadBuffer(c, <<>>, <<>>)
                                /\ ENABLED GetBufferInfo(c))
             /\ CanCall(c) => ENABLED ClearBuffer(c)
       /\ \A t \in Tasks :
             (/\ tasks[t].pc = "read"
              /\ ~tasks[t].must_cancel
              /\ sockets[tasks[t].rd].lost # "error"
              /\ reads < MaxReads)
             => ENABLED LoopReadData(t, <<1>>)
       /\ \A t \in Tasks :
             CancelDelivered(t)
             => /\ lock' = 0
                /\ UNCHANGED <<buffer, read_log, bytes_received>>
       /\ buffer' = SubSeq(read_log', cleared_at' + 1, Len(read_log'))]_vars

\* the loop was cancelled after it had received a chunk, and a caller has
\* since read the chunk from the buffer
C40_Witness ==
    /\ tasks[1].exit = "cancel"
    /\ lock = 0
    /\ last.op = "read_buffer"
    /\ last.out # <<>>
    /\ last.out = buffer
    /\ ~connected

====
